---- MODULE Spec2Model ----
(***************************************************************************)
(* ChangeForge: changeset aggregation, version computation, changelog      *)
(* synthesis, version propagation and cleanup.                             *)
(*                                                                         *)
(* Strings are sequences of one-character strings, so that substring       *)
(* search, literal replacement, line splitting, decimal parsing and        *)
(* formatting are computed character by character as the code does.        *)
(***************************************************************************)
EXTENDS Integers, Sequences, FiniteSets, TLC

(***************************************************************************)
(* Bounds of the model.                                                    *)
(***************************************************************************)
\* version-bearing files configured in version_path (release pipeline)
MaxPaths == 2
\* directory entries of .changesets (release pipeline and cleanup)
MaxStore == 2
\* changesets handed to new_changelog_entry
MaxChangesets == 4
\* invocations of delete_changesets on one store (cleanup alone)
MaxCalls == 2

\* lines of the file the version reader is run on
MaxLines == 3

(***************************************************************************)
(* Characters and strings.                                                 *)
(***************************************************************************)
Digits == {"0", "1", "2", "3", "4", "5", "6", "7", "8", "9"}

DigitChars == <<"0", "1", "2", "3", "4", "5", "6", "7", "8", "9">>

\* the value of a decimal digit character
DigitVal(c) == (CHOOSE i \in 1..10 : DigitChars[i] = c) - 1

\* str::parse::<u32> of a non-empty run of digits
RECURSIVE ParseNat(_)
ParseNat(s) ==
    IF Len(s) = 0 THEN 0
    ELSE 10 * ParseNat(SubSeq(s, 1, Len(s) - 1)) + DigitVal(s[Len(s)])

\* format!("{}", n) of an unsigned integer
RECURSIVE FormatNat(_)
FormatNat(n) ==
    IF n < 10 THEN <<DigitChars[n + 1]>>
    ELSE FormatNat(n \div 10) \o <<DigitChars[(n % 10) + 1]>>

\* s[i..] starts with pat
StartsWithAt(s, pat, i) ==
    /\ i + Len(pat) - 1 <= Len(s)
    /\ SubSeq(s, i, i + Len(pat) - 1) = pat

\* str::contains(pat)
Contains(s, pat) == \E i \in 1..(Len(s) + 1) : StartsWithAt(s, pat, i)

\* str::replace(from, to): every non-overlapping match of from, scanning
\* left to right, is replaced by to (from is never empty here)
RECURSIVE StrReplaceFirst(_, _, _)
StrReplaceFirst(s, from, to) ==
    IF Len(s) < Len(from) THEN s
    ELSE IF StartsWithAt(s, from, 1)
         THEN to \o SubSeq(s, Len(from) + 1, Len(s))
         ELSE <<s[1]>> \o StrReplaceFirst(Tail(s), from, to)

RECURSIVE StrReplace(_, _, _)
StrReplace(s, from, to) ==
    IF Len(s) < Len(from) THEN s
    ELSE IF StartsWithAt(s, from, 1)
         THEN to \o StrReplace(SubSeq(s, Len(from) + 1, Len(s)), from, to)
         ELSE <<s[1]>> \o StrReplace(Tail(s), from, to)

\* a line as BufRead::lines() yields it: a "\r" before the "\n" is dropped
StripCR(line) ==
    IF Len(line) > 0 /\ line[Len(line)] = "\r"
    THEN SubSeq(line, 1, Len(line) - 1)
    ELSE line

\* BufRead::lines(): the text cut at each "\n", terminators ("\n" or "\r\n")
\* removed; a last line without terminator is still a line
RECURSIVE Lines(_)
Lines(text) ==
    IF Len(text) = 0 THEN <<>>
    ELSE IF \E i \in 1..Len(text) : text[i] = "\n"
         THEN LET i == CHOOSE j \in 1..Len(text) :
                         /\ text[j] = "\n"
                         /\ \A k \in 1..(j - 1) : text[k] # "\n"
              IN  <<StripCR(SubSeq(text, 1, i - 1))>>
                     \o Lines(SubSeq(text, i + 1, Len(text)))
         ELSE <<text>>

\* [String]::join(sep)
RECURSIVE Join(_, _)
Join(parts, sep) ==
    IF Len(parts) = 0 THEN <<>>
    ELSE IF Len(parts) = 1 THEN parts[1]
    ELSE parts[1] \o sep \o Join(Tail(parts), sep)

\* every strict prefix of a text: what a write that fails part-way leaves
StrictPrefixes(text) == {SubSeq(text, 1, n) : n \in 0..(Len(text) - 1)}

(***************************************************************************)
(* Version strings.                                                        *)
(***************************************************************************)
\* the two markers open_path looks for in a line
VersionMarker == <<"v", "e", "r", "s", "i", "o", "n", " ", "=">>

DunderVersionMarker ==
    <<"_", "_", "v", "e", "r", "s", "i", "o", "n", "_", "_", " ", "=">>

\* first index at or after i that holds no digit (Len(s) + 1 when none)
RECURSIVE DigitRunEnd(_, _)
DigitRunEnd(s, i) ==
    IF i > Len(s) \/ s[i] \notin Digits THEN i ELSE DigitRunEnd(s, i + 1)

\* the regular expression "(\d+\.\d+\.\d+)" tried at position i of a line:
\* the index of the closing quote, or 0 when it does not match there
VersionMatchAt(line, i) ==
    IF i > Len(line) \/ line[i] # "\"" THEN 0
    ELSE LET e1 == DigitRunEnd(line, i + 1) IN
         IF e1 = i + 1 \/ e1 > Len(line) \/ line[e1] # "." THEN 0
         ELSE LET e2 == DigitRunEnd(line, e1 + 1) IN
              IF e2 = e1 + 1 \/ e2 > Len(line) \/ line[e2] # "." THEN 0
              ELSE LET e3 == DigitRunEnd(line, e2 + 1) IN
                   IF e3 = e2 + 1 \/ e3 > Len(line) \/ line[e3] # "\"" THEN 0
                   ELSE e3

\* re.captures(&line): group 1 of the leftmost match, <<>> when none matches
VersionCapture(line) ==
    IF \E i \in 1..Len(line) : VersionMatchAt(line, i) > 0
    THEN LET i == CHOOSE j \in 1..Len(line) :
                    /\ VersionMatchAt(line, j) > 0
                    /\ \A k \in 1..(j - 1) : VersionMatchAt(line, k) = 0
         IN  SubSeq(line, i + 1, VersionMatchAt(line, i) - 1)
    ELSE <<>>

HasMarker(line) ==
    Contains(line, VersionMarker) \/ Contains(line, DunderVersionMarker)

\* a mutation of MarkerLine: the last line that holds a marker
MarkerLineLast(lines) ==
    IF \E i \in 1..Len(lines) : HasMarker(lines[i])
    THEN CHOOSE j \in 1..Len(lines) :
            /\ HasMarker(lines[j])
            /\ \A k \in (j + 1)..Len(lines) : ~HasMarker(lines[k])
    ELSE 0

\* the line at which the loop of open_path leaves the scan: the first line
\* that holds a marker, 0 when the loop runs to the end of the file
MarkerLine(lines) ==
    IF \E i \in 1..Len(lines) : HasMarker(lines[i])
    THEN CHOOSE j \in 1..Len(lines) :
            /\ HasMarker(lines[j])
            /\ \A k \in 1..(j - 1) : ~HasMarker(lines[k])
    ELSE 0

\* the names the last panic of open_path lists
MarkerNames == <<"version", "__version__">>

\* a mutation of open_path: marker lines without a version number are
\* passed over
open_path_lenient(text) ==
    LET lines == Lines(text)
        good == {j \in 1..Len(lines) :
                    HasMarker(lines[j]) /\ VersionCapture(lines[j]) # <<>>}
    IN  IF good # {}
        THEN LET i == CHOOSE j \in good : \A k \in good : j <= k
             IN  [ok |-> TRUE, version |-> VersionCapture(lines[i]),
                  error |-> "none", line |-> lines[i], names |-> <<>>]
        ELSE [ok |-> FALSE, version |-> <<>>, error |-> "version not found",
              line |-> <<>>, names |-> <<"version", "__version__">>]

\* open_path on the text of a file that could be opened: the version of the
\* first marker line, or the panic the scan ends in with the line or the
\* marker names its message holds
open_path(text) ==
    LET lines == Lines(text)
        i == MarkerLine(lines)
    IN  IF i > 0
        THEN IF VersionCapture(lines[i]) # <<>>
             THEN [ok |-> TRUE, version |-> VersionCapture(lines[i]),
                   error |-> "none", line |-> lines[i], names |-> <<>>]
             ELSE [ok |-> FALSE, version |-> <<>>,
                   error |-> "no version number in line",
                   line |-> lines[i], names |-> <<>>]
        ELSE [ok |-> FALSE, version |-> <<>>, error |-> "version not found",
              line |-> <<>>, names |-> MarkerNames]

\* str::split(sep): the pieces between occurrences of the character sep
RECURSIVE Split(_, _)
Split(s, sep) ==
    IF \E i \in 1..Len(s) : s[i] = sep
    THEN LET i == CHOOSE j \in 1..Len(s) :
                    /\ s[j] = sep
                    /\ \A k \in 1..(j - 1) : s[k] # sep
         IN  <<SubSeq(s, 1, i - 1)>> \o Split(SubSeq(s, i + 1, Len(s)), sep)
    ELSE <<s>>

\* format!("{}.{}.{}", major, minor, patch)
FormatVersion(major, minor, patch) ==
    FormatNat(major) \o <<".">> \o FormatNat(minor) \o <<".">> \o FormatNat(patch)

ChangeKinds == {"MAJOR", "MINOR", "PATCH"}

\* a mutation of calculate_next_version: the lower components are kept
calculate_next_version_keep(current, change) ==
    LET parts == Split(current, ".")
        major == ParseNat(parts[1])
        minor == ParseNat(parts[2])
        patch == ParseNat(parts[3])
    IN  CASE change = "MAJOR" -> FormatVersion(major + 1, minor, patch)
          [] change = "MINOR" -> FormatVersion(major, minor + 1, patch)
          [] change = "PATCH" -> FormatVersion(major, minor, patch + 1)

\* calculate_next_version(current, change): the next version string
calculate_next_version(current, change) ==
    LET parts == Split(current, ".")
        major == ParseNat(parts[1])
        minor == ParseNat(parts[2])
        patch == ParseNat(parts[3])
    IN  CASE change = "MAJOR" -> FormatVersion(major + 1, 0, 0)
          [] change = "MINOR" -> FormatVersion(major, minor + 1, 0)
          [] change = "PATCH" -> FormatVersion(major, minor, patch + 1)

\* precedence of a change kind: MAJOR over MINOR over PATCH
KindRank(change) ==
    CASE change = "MAJOR" -> 3
      [] change = "MINOR" -> 2
      [] change = "PATCH" -> 1

\* a mutation of highest_change: the kind of the most recent changeset
highest_change_last(changesets) == changesets[Len(changesets)].change

\* the single highest-precedence kind among the pending changesets
\* (changesets is not empty)
RECURSIVE highest_change(_)
highest_change(changesets) ==
    IF Len(changesets) = 1 THEN changesets[1].change
    ELSE LET rest == highest_change(Tail(changesets)) IN
         IF KindRank(changesets[1].change) >= KindRank(rest)
         THEN changesets[1].change
         ELSE rest

(***************************************************************************)
(* Changelog synthesis.                                                    *)
(***************************************************************************)
\* format!("## [{}]\n", version)
HeaderLine(version) == <<"#", "#", " ", "[">> \o version \o <<"]", "\n">>

\* format!("\n### {}\n\n", tag)
TagLine(tag) == <<"\n", "#", "#", "#", " ">> \o tag \o <<"\n", "\n">>

\* a mutation of BulletLine: the modules prefix is never written
BulletLineNoModules(c) == <<"-", " ">> \o c.message \o <<".", "\n">>

\* the bullet of one changeset: format!("- {}.\n", message) when modules is
\* empty, format!("- {}: {}.\n", modules, message) otherwise
BulletLine(c) ==
    IF c.modules = <<>>
    THEN <<"-", " ">> \o c.message \o <<".", "\n">>
    ELSE <<"-", " ">> \o c.modules \o <<":", " ">> \o c.message \o <<".", "\n">>

\* the inner loop: one bullet per changeset carrying the tag, in input order
RECURSIVE TagBullets(_, _)
TagBullets(changesets, tag) ==
    IF Len(changesets) = 0 THEN <<>>
    ELSE IF changesets[1].tag = tag
         THEN <<BulletLine(changesets[1])>> \o TagBullets(Tail(changesets), tag)
         ELSE TagBullets(Tail(changesets), tag)

\* a mutation of EntryLoop: printed_tags is never consulted
RECURSIVE EntryLoopNoSkip(_, _, _, _)
EntryLoopNoSkip(changesets, i, printed_tags, content) ==
    IF i > Len(changesets) THEN content
    ELSE EntryLoopNoSkip(changesets, i + 1, printed_tags \cup {changesets[i].tag},
                         content \o <<TagLine(changesets[i].tag)>>
                                 \o TagBullets(changesets, changesets[i].tag))

\* the outer loop of new_changelog_entry from changeset i on
RECURSIVE EntryLoop(_, _, _, _)
EntryLoop(changesets, i, printed_tags, content) ==
    IF i > Len(changesets) THEN content
    ELSE IF changesets[i].tag \in printed_tags
         THEN EntryLoop(changesets, i + 1, printed_tags, content)
         ELSE EntryLoop(changesets, i + 1, printed_tags \cup {changesets[i].tag},
                        content \o <<TagLine(changesets[i].tag)>>
                                \o TagBullets(changesets, changesets[i].tag))

new_changelog_entry(changesets, version) ==
    EntryLoop(changesets, 1, {}, <<HeaderLine(version)>>)

(***************************************************************************)
(* Inputs: the texts and records the initial states are drawn from.        *)
(***************************************************************************)
V123 == <<"1", ".", "2", ".", "3">>

V041 == <<"0", ".", "4", ".", "1">>

V199 == <<"1", ".", "9", ".", "9">>

V999 == <<"9", ".", "9", ".", "9">>

Quoted(s) == <<"\"">> \o s \o <<"\"">>

\* version = "1.2.3"
FilePlain == VersionMarker \o <<" ">> \o Quoted(V123) \o <<"\n">>

\* __version__ = "1.2.3" followed by a line that holds 1.2.3 inside the
\* longer token 11.2.34
FileEmbedded ==
    DunderVersionMarker \o <<" ">> \o Quoted(V123) \o <<"\n">>
    \o <<"p", "i", "n", " ", "1">> \o V123 \o <<"4", "\n">>

\* version = "0.4.1"
FileOther == VersionMarker \o <<" ">> \o Quoted(V041) \o <<"\n">>

\* version = "1.9.9"
FileNines == VersionMarker \o <<" ">> \o Quoted(V199) \o <<"\n">>

\* a file without any marker line
FileNoMarker == <<"n", "a", "m", "e", "\n">>

FileContents == {FilePlain, FileEmbedded, FileOther, FileNines, FileNoMarker}

Changeset(name, change, modules, tag, message, version) ==
    [name |-> name, change |-> change, modules |-> modules, tag |-> tag,
     message |-> message, version |-> version]

TagBug == <<"B", "u", "g">>

TagFeature == <<"F", "e", "a", "t", "u", "r", "e">>

TagRemove == <<"R", "e", "m", "o", "v", "e">>

CsBug == Changeset("a", "PATCH", <<"p">>, TagBug, <<"f", "i", "x">>, <<"1", ".", "2", ".", "4">>)

CsFeature == Changeset("b", "MINOR", <<>>, TagFeature, <<"a", "d", "d">>, <<"1", ".", "3", ".", "0">>)

CsRemove == Changeset("c", "MAJOR", <<>>, TagRemove, <<"c", "u", "t">>, <<"2", ".", "0", ".", "0">>)

CsBug2 == Changeset("d", "PATCH", <<>>, TagBug, <<"n", "i", "l">>, <<"1", ".", "2", ".", "4">>)

CsFeature2 == Changeset("e", "MINOR", <<"q">>, TagFeature, <<"n", "e", "w">>, <<"1", ".", "3", ".", "0">>)

\* the records a changeset file of the store may hold
StoreChangesets == {CsBug, CsFeature, CsRemove}

\* the records new_changelog_entry is applied to
EntryChangesets == {CsBug, CsFeature, CsRemove, CsBug2, CsFeature2}

\* a directory entry of .changesets: a regular file holding a changeset
\* record, or a subdirectory holding one such file
FileEntry(c) == [kind |-> "file", changeset |-> c]

DirEntry(c) == [kind |-> "dir", changeset |-> c]

StoreEntries ==
    {FileEntry(c) : c \in StoreChangesets}
        \cup {DirEntry(CsBug2), DirEntry(CsFeature2)}

\* sequences over S of length at most n
SeqsUpTo(S, n) == UNION {[1..k -> S] : k \in 0..n}

\* directory listings: the entries of a directory bear distinct names
Listings(n) ==
    {l \in SeqsUpTo(StoreEntries, n) :
        \A i, j \in 1..Len(l) : i # j => l[i] # l[j]}

\* a prior CHANGELOG.md: a title and one earlier release
PriorChangelog ==
    <<"#", " ", "L", "o", "g", "\n">> \o HeaderLine(<<"0", ".", "1", ".", "0">>)

RECURSIVE SelectEntries(_, _)
SelectEntries(l, kind) ==
    IF Len(l) = 0 THEN <<>>
    ELSE IF l[1].kind = kind
         THEN <<l[1]>> \o SelectEntries(Tail(l), kind)
         ELSE SelectEntries(Tail(l), kind)

RECURSIVE RemoveEntryFrom(_, _)
RemoveEntryFrom(l, e) ==
    IF Len(l) = 0 THEN <<>>
    ELSE IF l[1] = e THEN Tail(l)
    ELSE <<l[1]>> \o RemoveEntryFrom(Tail(l), e)

(***************************************************************************)
(* State.                                                                  *)
(***************************************************************************)
VARIABLES
    pc,              \* position of the running command
    version_paths,   \* the configured version_path list, in order
    files,           \* text of each version-bearing file
    changelog,       \* text of CHANGELOG.md
    store_exists,    \* whether the directory .changesets exists
    store,           \* entries of .changesets, in read_dir order
    changesets,      \* the pending changesets read from the store
    current_version, \* the version read from the first configured file
    change,          \* the change kind of the release
    new_version,     \* the version of the release
    content,         \* the lines handed to create_changelog
    entries,         \* the listing delete_changesets iterates over
    idx,             \* index of the loop in progress
    panic_at,        \* the position at which the process panicked
    success,         \* whether the success box was printed
    calls,           \* invocations of delete_changesets so far
    files0,          \* files as they were when the command started
    store0,          \* store as it was when the command started
    changelog0,      \* changelog as it was when the command started
    result,          \* what the function under study returned, or its panic
    changeforge_toml, \* the file changeforge.toml
    pyproject_toml,  \* the file pyproject.toml
    draft,           \* the answers of the create flow and the changeset built
    exit_code,       \* the exit code of the process, "none" while it runs
    cancel_at,       \* the prompt the user cancelled or declined, if any
    cfg,             \* the CFConfig load_changeforge_config returns
    templates,       \* the directory of message templates
    other_dirs,      \* entries of the directories beside .changesets
    project,         \* the files init_project may create, by path
    answers          \* the answers given to the prompts of init_project

vars == <<pc, version_paths, files, changelog, store_exists, store, changesets,
          current_version, change, new_version, content, entries, idx,
          panic_at, success, calls, files0, store0, changelog0, result,
          changeforge_toml, pyproject_toml, draft, exit_code, cancel_at, cfg,
          templates, other_dirs, project, answers>>

config_vars == <<version_paths, files0, store0, changelog0>>

\* the state the release pipeline never touches
toml_vars == <<changeforge_toml, pyproject_toml>>

create_vars == <<draft, exit_code, cancel_at, cfg, templates>>

\* the directories and files that only cleanup's configuration and
\* init_project are concerned with
fs_vars == <<other_dirs, project, answers>>

aux_vars == <<result, toml_vars, create_vars, fs_vars>>

NoResult == [ok |-> FALSE, error |-> "not called"]

\* a configuration file that is not there
AbsentFile ==
    [exists |-> FALSE, parses |-> FALSE,
     doc |-> [type |-> "table", text |-> <<>>, items |-> <<>>, table |-> <<>>]]

\* the CFConfig of a project without configuration
NoConfig ==
    [ai_enabled |-> TRUE, templates_dir |-> [some |-> FALSE, dir |-> <<>>],
     commit_on_create |-> TRUE]

\* no answer given yet
NoDraft ==
    [name |-> <<>>, change |-> <<>>, tag |-> <<>>, modules |-> <<>>,
     message |-> <<>>, version |-> <<>>, method |-> "none",
     ai_message |-> <<>>, template |-> <<>>]

\* a directory of templates that is not there
NoTemplates == [has_entry |-> FALSE, files |-> <<>>]

InitCreateVars ==
    /\ draft = NoDraft
    /\ exit_code = "none"
    /\ cancel_at = "none"
    /\ cfg = NoConfig
    /\ templates = NoTemplates

InitToml ==
    /\ changeforge_toml = AbsentFile
    /\ pyproject_toml = AbsentFile

\* the directory records, which the project may hold beside .changesets
RecordsDir == <<"r", "e", "c", "o", "r", "d", "s">>

\* no directory beside .changesets holds anything
NoOtherDirs == [d \in {RecordsDir} |-> <<>>]

\* a path that names nothing
AbsentPath == [kind |-> "absent", content |-> <<>>]

\* the paths write_file_if_absent is called with
ConfigPath ==
    <<"c", "h", "a", "n", "g", "e", "f", "o", "r", "g", "e", ".", "t", "o",
      "m", "l">>

OpenPrPath ==
    <<".", "g", "i", "t", "h", "u", "b", "/", "w", "o", "r", "k", "f", "l",
      "o", "w", "s", "/", "o", "p", "e", "n", "_", "p", "r", "_", "o", "n",
      "_", "p", "u", "s", "h", ".", "y", "m", "l">>

AutoReleasePath ==
    <<".", "g", "i", "t", "h", "u", "b", "/", "w", "o", "r", "k", "f", "l",
      "o", "w", "s", "/", "a", "u", "t", "o", "_", "r", "e", "l", "e", "a",
      "s", "e", ".", "y", "m", "l">>

InitPaths == {ConfigPath, OpenPrPath, AutoReleasePath}

\* Path::parent of the two workflow files
WorkflowsDir ==
    <<".", "g", "i", "t", "h", "u", "b", "/", "w", "o", "r", "k", "f", "l",
      "o", "w", "s">>

\* a directory the user may name for the message templates
TemplatesPath == <<"t", "p", "l">>

\* the paths of the project root that init_project may touch
ProjectPaths == InitPaths \cup {WorkflowsDir, TemplatesPath}

\* the project root of a command that looks at none of these paths
NoProject == [p \in {} |-> AbsentPath]

\* no prompt of init_project answered yet
NoAnswers ==
    [version_paths |-> <<>>, ai_enabled |-> FALSE, commit_on_create |-> FALSE,
     templates_dir |-> <<>>, watch_branch |-> <<>>, base_branch |-> <<>>,
     target_branch |-> <<>>]

InitFs ==
    /\ other_dirs = NoOtherDirs
    /\ project = NoProject
    /\ answers = NoAnswers

InitAux ==
    /\ result = NoResult
    /\ InitToml
    /\ InitCreateVars
    /\ InitFs

\* get_current_changesets: the records of the files of the store, in
\* directory order
RECURSIVE get_current_changesets(_)
get_current_changesets(l) ==
    IF Len(l) = 0 THEN <<>>
    ELSE IF l[1].kind = "file"
         THEN <<l[1].changeset>> \o get_current_changesets(Tail(l))
         ELSE get_current_changesets(Tail(l))

\* a mutation of FirstPath: the last configured path is read instead
LastPath(paths) == paths[Len(paths)]

\* find_version, line 31: version_paths[0]
FirstPath(paths) == paths[1]

\* a byte that is part of no valid UTF-8 sequence (0xE9, an e acute of
\* Latin-1, say)
InvalidByte == "<E9>"

\* reader.lines() yields Ok for the line: it is valid UTF-8
ReadsOk(line) == \A i \in 1..Len(line) : line[i] # InvalidByte

\* open_changelog: the lines of CHANGELOG.md that read Ok; the others are
\* passed over
open_changelog(text) == SelectSeq(Lines(text), ReadsOk)

\* a mutation of ChangelogText: the file is created and nothing is written
ChangelogTextNone(lines) == <<>>

\* writeln!(file, "{}", content.join("\n"))
ChangelogText(lines) == Join(lines, <<"\n">>) \o <<"\n">>

Panic ==
    /\ pc' = "panicked"
    /\ panic_at' = pc

(***************************************************************************)
(* The release: bump_version, then create_changelog, which writes          *)
(* CHANGELOG.md, calls update_version_path and then delete_changesets.     *)
(***************************************************************************)
\* bump_version: read the current version from the first configured file,
\* enumerate the pending changesets, compute the release version, synthesize
\* the entry, prepend it to the lines of CHANGELOG.md and call
\* create_changelog
bump_version ==
    /\ pc = "bump_version"
    /\ \E io \in {"ok", "version_file_unreadable", "changelog_unreadable"} :
          LET r == open_path(files[FirstPath(version_paths)])
              pending == get_current_changesets(store)
              kind == highest_change(pending)
              next == calculate_next_version(r.version, kind)
          IN  IF io = "ok" /\ r.ok
              THEN /\ current_version' = r.version
                   /\ changesets' = pending
                   /\ change' = kind
                   /\ new_version' = next
                   /\ content' = new_changelog_entry(pending, next)
                                     \o open_changelog(changelog)
                   /\ pc' = "create_changelog"
                   /\ UNCHANGED panic_at
              ELSE /\ Panic
                   /\ UNCHANGED <<current_version, changesets, change,
                                  new_version, content>>
    /\ UNCHANGED <<files, changelog, store_exists, store, entries, idx,
                   success, calls, config_vars,
                   aux_vars>>

\* a mutation of AfterChangelogWrite: the changesets are deleted first
AfterChangelogWriteDelete == "delete_changesets"

\* create_changelog, line 36: once CHANGELOG.md is written the next call is
\* update_version_path
AfterChangelogWrite == "update_version_path"

\* create_changelog, lines 31-34: CHANGELOG.md is created anew and the
\* content written; a write that fails leaves part of it
create_changelog_write ==
    /\ pc = "create_changelog"
    /\ \E io \in {"ok", "create_failed", "write_failed"} :
          CASE io = "ok" ->
                  /\ changelog' = ChangelogText(content)
                  /\ pc' = AfterChangelogWrite
                  /\ UNCHANGED panic_at
            [] io = "create_failed" ->
                  /\ UNCHANGED changelog
                  /\ Panic
            [] io = "write_failed" ->
                  /\ changelog' \in StrictPrefixes(ChangelogText(content))
                  /\ Panic
    /\ UNCHANGED <<files, store_exists, store, changesets, current_version,
                   change, new_version, content, entries, idx, success, calls,
                   config_vars,
                   aux_vars>>

\* update_version_path, lines 207-210: the configured paths are resolved and
\* the current version is read, once, from the first of them
update_version_path_begin ==
    /\ pc = "update_version_path"
    /\ \E io \in {"ok", "open_failed"} :
          LET r == open_path(files[FirstPath(version_paths)]) IN
          IF io = "ok" /\ r.ok
          THEN /\ current_version' = r.version
               /\ idx' = 1
               /\ pc' = "rewrite"
               /\ UNCHANGED panic_at
          ELSE /\ Panic
               /\ UNCHANGED <<current_version, idx>>
    /\ UNCHANGED <<files, changelog, store_exists, store, changesets, change,
                   new_version, content, entries, success, calls, config_vars,
                   aux_vars>>

\* a mutation of UpdatedContent: only the first occurrence is replaced
UpdatedContentFirst(text, current, new) == StrReplaceFirst(text, current, new)

\* a mutation of UpdatedContent: the text is written back as it was read
UpdatedContentSame(text, current, new) == text

\* a mutation of UpdatedContent: the version replaced is the one the file
\* being rewritten holds itself
UpdatedContentOwn(text, current, new) ==
    IF open_path(text).ok THEN StrReplace(text, open_path(text).version, new)
    ELSE text

\* line 227: content.replace(&current_version, new_version)
UpdatedContent(text, current, new) == StrReplace(text, current, new)

\* update_version_path, lines 213-239: one iteration of the loop over the
\* configured paths; any failure panics and leaves the loop
update_version_path_rewrite ==
    /\ pc = "rewrite"
    /\ LET p == version_paths[idx]
           updated == UpdatedContent(files[p], current_version, new_version)
       IN  \E io \in {"ok", "open_failed", "read_failed", "create_failed",
                      "write_failed"} :
              CASE io = "ok" ->
                      /\ files' = [files EXCEPT ![p] = updated]
                      /\ idx' = idx + 1
                      /\ pc' = IF idx = Len(version_paths)
                               THEN "delete_changesets" ELSE "rewrite"
                      /\ UNCHANGED panic_at
                [] io \in {"open_failed", "read_failed", "create_failed"} ->
                      /\ UNCHANGED <<files, idx>>
                      /\ Panic
                [] io = "write_failed" ->
                      /\ \E t \in StrictPrefixes(updated) :
                            files' = [files EXCEPT ![p] = t]
                      /\ UNCHANGED idx
                      /\ Panic
    /\ UNCHANGED <<changelog, store_exists, store, changesets, current_version,
                   change, new_version, content, entries, success, calls,
                   config_vars,
                   aux_vars>>

\* delete_changesets, lines 77-79 and 92-96: read_dir of .changesets, a panic
\* when the directory cannot be read
delete_changesets_begin ==
    /\ pc = "delete_changesets"
    /\ calls' = calls + 1
    /\ IF store_exists
       THEN /\ entries' = store
            /\ idx' = 1
            /\ pc' = IF Len(store) = 0 THEN "deleted" ELSE "remove"
            /\ UNCHANGED panic_at
       ELSE /\ Panic
            /\ UNCHANGED <<entries, idx>>
    /\ UNCHANGED <<files, changelog, store_exists, store, changesets,
                   current_version, change, new_version, content, success,
                   config_vars,
                   aux_vars>>

\* a mutation of RemoveFile: every file of the directory goes at once
RemoveEveryFile(l, e) == SelectEntries(l, "dir")

\* line 86: fs::remove_file(&path)
RemoveFile(l, e) == RemoveEntryFrom(l, e)

\* a mutation of ShouldRemove: every entry is removed
ShouldRemoveAny(e) == TRUE

\* line 84: path.is_file()
ShouldRemove(e) == e.kind = "file"

\* delete_changesets, lines 81-91: one entry of the listing; a file is
\* removed, anything else is skipped, a failed removal panics
delete_changesets_remove ==
    /\ pc = "remove"
    /\ LET e == entries[idx]
           last == idx = Len(entries)
       IN  IF ShouldRemove(e)
           THEN \E io \in {"ok", "remove_failed"} :
                   IF io = "ok"
                   THEN /\ store' = RemoveFile(store, e)
                        /\ idx' = idx + 1
                        /\ pc' = IF last THEN "deleted" ELSE "remove"
                        /\ UNCHANGED panic_at
                   ELSE /\ UNCHANGED <<store, idx>>
                        /\ Panic
           ELSE /\ UNCHANGED <<store, panic_at>>
                /\ idx' = idx + 1
                /\ pc' = IF last THEN "deleted" ELSE "remove"
    /\ UNCHANGED <<files, changelog, store_exists, changesets, current_version,
                   change, new_version, content, entries, success, calls,
                   config_vars,
                   aux_vars>>

\* create_changelog, lines 39-40: the success box
create_changelog_success ==
    /\ pc = "deleted"
    /\ pc' = "done"
    /\ success' = TRUE
    /\ UNCHANGED <<files, changelog, store_exists, store, changesets,
                   current_version, change, new_version, content, entries, idx,
                   panic_at, calls, config_vars,
                   aux_vars>>

HasFile(l) == \E i \in 1..Len(l) : l[i].kind = "file"

Init ==
    /\ pc = "bump_version"
    /\ \E n \in 1..MaxPaths :
          /\ version_paths = [i \in 1..n |-> i]
          /\ files \in [1..n -> FileContents]
    /\ files0 = files
    /\ changelog = PriorChangelog
    /\ changelog0 = changelog
    /\ store_exists = TRUE
    /\ store \in {l \in Listings(MaxStore) : HasFile(l)}
    /\ store0 = store
    /\ changesets = <<>>
    /\ current_version = <<>>
    /\ change = "none"
    /\ new_version = <<>>
    /\ content = <<>>
    /\ entries = <<>>
    /\ idx = 0
    /\ panic_at = "none"
    /\ success = FALSE
    /\ calls = 0
    /\ InitAux

Next ==
    \/ bump_version
    \/ create_changelog_write
    \/ update_version_path_begin
    \/ update_version_path_rewrite
    \/ delete_changesets_begin
    \/ delete_changesets_remove
    \/ create_changelog_success

Spec == Init /\ [][Next]_vars

(***************************************************************************)
(* Aggregation and synthesis on their own: the version computation and     *)
(* new_changelog_entry applied to changeset sequences of every shape.      *)
(***************************************************************************)
\* the version computation of a release: the highest-precedence kind of the
\* pending changesets and the next version it gives
aggregate ==
    /\ pc = "aggregate"
    /\ change' = highest_change(changesets)
    /\ new_version' = calculate_next_version(current_version, change')
    /\ pc' = "aggregated"
    /\ UNCHANGED <<files, changelog, store_exists, store, changesets,
                   current_version, content, entries, idx, panic_at, success,
                   calls, config_vars,
                   aux_vars>>

\* new_changelog_entry applied to the changesets and the release version
synthesize ==
    /\ pc = "synthesize"
    /\ content' = new_changelog_entry(changesets, new_version)
    /\ pc' = "synthesized"
    /\ UNCHANGED <<files, changelog, store_exists, store, changesets,
                   current_version, change, new_version, entries, idx,
                   panic_at, success, calls, config_vars,
                   aux_vars>>

InitAggregate ==
    /\ \/ /\ pc = "aggregate"
          /\ changesets \in SeqsUpTo(EntryChangesets, MaxChangesets) \ {<<>>}
          /\ current_version \in {V123, V041, V199, V999}
          /\ new_version = <<>>
       \/ /\ pc = "synthesize"
          /\ changesets \in SeqsUpTo(EntryChangesets, MaxChangesets)
          /\ current_version = <<>>
          /\ new_version \in {V123, V041}
    /\ version_paths = <<1>>
    /\ files = [i \in 1..1 |-> FilePlain]
    /\ files0 = files
    /\ changelog = PriorChangelog
    /\ changelog0 = changelog
    /\ store_exists = TRUE
    /\ store = <<>>
    /\ store0 = store
    /\ change = "none"
    /\ content = <<>>
    /\ entries = <<>>
    /\ idx = 0
    /\ panic_at = "none"
    /\ success = FALSE
    /\ calls = 0
    /\ InitAux

NextAggregate ==
    \/ aggregate
    \/ synthesize

SpecAggregate == InitAggregate /\ [][NextAggregate]_vars

(***************************************************************************)
(* Cleanup on its own: delete_changesets invoked on a store, and invoked   *)
(* again after it returned.                                                *)
(***************************************************************************)
delete_changesets_again ==
    /\ pc = "deleted"
    /\ calls < MaxCalls
    /\ pc' = "delete_changesets"
    /\ UNCHANGED <<files, changelog, store_exists, store, changesets,
                   current_version, change, new_version, content, entries, idx,
                   panic_at, success, calls, config_vars,
                   aux_vars>>

InitCleanup ==
    /\ pc = "delete_changesets"
    /\ \/ /\ store_exists = TRUE
          /\ store \in Listings(MaxStore + 1)
       \/ /\ store_exists = FALSE
          /\ store = <<>>
    /\ store0 = store
    /\ version_paths = <<1>>
    /\ files = [i \in 1..1 |-> FilePlain]
    /\ files0 = files
    /\ changelog = PriorChangelog
    /\ changelog0 = changelog
    /\ changesets = <<>>
    /\ current_version = <<>>
    /\ change = "none"
    /\ new_version = <<>>
    /\ content = <<>>
    /\ entries = <<>>
    /\ idx = 0
    /\ panic_at = "none"
    /\ success = FALSE
    /\ calls = 0
    /\ InitAux

NextCleanup ==
    \/ delete_changesets_begin
    \/ delete_changesets_remove
    \/ delete_changesets_again

SpecCleanup == InitCleanup /\ [][NextCleanup]_vars

(***************************************************************************)
(* Claims about aggregation and synthesis (SpecAggregate).                 *)
(***************************************************************************)
PendingKinds == {changesets[i].change : i \in 1..Len(changesets)}

TopKind ==
    IF "MAJOR" \in PendingKinds THEN "MAJOR"
    ELSE IF "MINOR" \in PendingKinds THEN "MINOR"
    ELSE "PATCH"

\* C1: the release bumps the current version by the highest-precedence
\* kind among the pending changesets (MAJOR over MINOR over PATCH), whatever
\* their order and number; pending kinds {PATCH, MINOR} give the MINOR bump
\* and never the PATCH bump.
C1_HighestPrecedenceKind ==
    pc = "aggregated" =>
        /\ change = TopKind
        /\ new_version = calculate_next_version(current_version, TopKind)
        /\ PendingKinds = {"PATCH", "MINOR"} =>
              /\ new_version = calculate_next_version(current_version, "MINOR")
              /\ new_version # calculate_next_version(current_version, "PATCH")

\* C1 witness: two PATCH changesets followed by one MINOR changeset were
\* aggregated into a MINOR release.
C1_Witness ==
    /\ pc = "aggregated"
    /\ Len(changesets) = 3
    /\ changesets[1].change = "PATCH"
    /\ changesets[2].change = "PATCH"
    /\ changesets[3].change = "MINOR"
    /\ change = "MINOR"

\* the largest version component the bump arithmetic is checked for
MaxComponent == 9

\* C2: from the current version (major, minor, patch) the next version is
\* (major+1, 0, 0) for MAJOR, (major, minor+1, 0) for MINOR and
\* (major, minor, patch+1) for PATCH; from 1.2.3 that is 2.0.0, 1.3.0, 1.2.4.
C2_BumpArithmetic ==
    pc = "aggregated" =>
        /\ \E major, minor, patch \in 0..MaxComponent :
              /\ current_version = FormatVersion(major, minor, patch)
              /\ change = "MAJOR" => new_version = FormatVersion(major + 1, 0, 0)
              /\ change = "MINOR" => new_version = FormatVersion(major, minor + 1, 0)
              /\ change = "PATCH" => new_version = FormatVersion(major, minor, patch + 1)
        /\ current_version = V123 =>
              /\ change = "MAJOR" => new_version = <<"2", ".", "0", ".", "0">>
              /\ change = "MINOR" => new_version = <<"1", ".", "3", ".", "0">>
              /\ change = "PATCH" => new_version = <<"1", ".", "2", ".", "4">>
        /\ current_version = V199 =>
              /\ change = "MINOR" => new_version = <<"1", ".", "1", "0", ".", "0">>
              /\ change = "PATCH" => new_version = <<"1", ".", "9", ".", "1", "0">>

\* C2 witness: a MINOR bump of 1.9.9 was computed, which carries into a
\* second digit.
C2_Witness ==
    /\ pc = "aggregated"
    /\ current_version = V199
    /\ change = "MINOR"
    /\ new_version = <<"1", ".", "1", "0", ".", "0">>

IsTagLine(line) == StartsWithAt(line, <<"\n", "#", "#", "#", " ">>, 1)

IsBulletLine(line) == StartsWithAt(line, <<"-", " ">>, 1)

PendingTags == {changesets[i].tag : i \in 1..Len(changesets)}

\* index of the first changeset carrying the tag
FirstSeen(tag) ==
    CHOOSE i \in 1..Len(changesets) :
        /\ changesets[i].tag = tag
        /\ \A j \in 1..(i - 1) : changesets[j].tag # tag

\* the lines of content below the heading at position k, up to the next
\* heading or the end
BlockBelow(k) ==
    LET stop == IF \E m \in (k + 1)..Len(content) : IsTagLine(content[m])
                THEN (CHOOSE m \in (k + 1)..Len(content) :
                         /\ IsTagLine(content[m])
                         /\ \A n \in (k + 1)..(m - 1) : ~IsTagLine(content[n])) - 1
                ELSE Len(content)
    IN  SubSeq(content, k + 1, stop)

\* the changesets carrying the tag, in input order
WithTag(tag) ==
    LET Carries(c) == c.tag = tag IN SelectSeq(changesets, Carries)

\* C3: the entry starts with the version header; then comes one heading per
\* distinct tag, in the order in which the tags first occur in the input,
\* each exactly once; below each heading come the bullets of exactly the
\* changesets carrying that tag, one each, in their input order.
C3_FirstSeenGrouping ==
    pc = "synthesized" =>
        LET headings == {k \in 1..Len(content) : IsTagLine(content[k])} IN
        /\ Len(content) >= 1
        /\ content[1] = HeaderLine(new_version)
        /\ \A tag \in PendingTags :
              Cardinality({k \in headings : content[k] = TagLine(tag)}) = 1
        /\ \A k \in headings : \E tag \in PendingTags : content[k] = TagLine(tag)
        /\ \A k1, k2 \in headings :
              k1 < k2 =>
                 \A t1, t2 \in PendingTags :
                    (content[k1] = TagLine(t1) /\ content[k2] = TagLine(t2))
                        => FirstSeen(t1) < FirstSeen(t2)
        /\ \A k \in headings : \A tag \in PendingTags :
              content[k] = TagLine(tag) =>
                 BlockBelow(k) = [m \in 1..Len(WithTag(tag)) |->
                                     BulletLine(WithTag(tag)[m])]
        /\ Len(content) = 1 + Cardinality(PendingTags) + Len(changesets)

\* C3 witness: tags in the order Bug, Feature, Bug, Feature were synthesized
\* into a Bug heading followed by a Feature heading.
C3_Witness ==
    /\ pc = "synthesized"
    /\ Len(changesets) = 4
    /\ changesets[1].tag = TagBug
    /\ changesets[2].tag = TagFeature
    /\ changesets[3].tag = TagBug
    /\ changesets[4].tag = TagFeature
    /\ content[2] = TagLine(TagBug)
    /\ content[5] = TagLine(TagFeature)

\* the bullet text the changelog is to hold for a changeset, as one line
BulletText(c) ==
    IF c.modules = <<>>
    THEN <<"-", " ">> \o c.message \o <<".">>
    ELSE <<"-", " ">> \o c.modules \o <<":", " ">> \o c.message \o <<".">>

\* C4: the bullet of a changeset is "- {message}." when its modules field is
\* empty and "- {modules}: {message}." otherwise: the entry holds one bullet
\* line per changeset, and each is that text followed by a line end.
C4_BulletFormat ==
    pc = "synthesized" =>
        LET bullets == SelectSeq(content, IsBulletLine) IN
        /\ Len(bullets) = Len(changesets)
        /\ \A i \in 1..Len(changesets) :
              \E k \in 2..Len(content) :
                 content[k] = BulletText(changesets[i]) \o <<"\n">>
        /\ \A k \in 2..Len(content) :
              ~IsTagLine(content[k]) =>
                 \E i \in 1..Len(changesets) :
                    /\ content[k] = BulletText(changesets[i]) \o <<"\n">>
                    /\ Lines(content[k]) = <<BulletText(changesets[i])>>

\* C4 witness: an entry was synthesized from a changeset with modules and a
\* changeset without.
C4_Witness ==
    /\ pc = "synthesized"
    /\ \E i, j \in 1..Len(changesets) :
          /\ changesets[i].modules = <<>>
          /\ changesets[j].modules # <<>>
    /\ \E k \in 2..Len(content) :
          content[k] = <<"-", " ", "p", ":", " ", "f", "i", "x", ".", "\n">>
    /\ \E k \in 2..Len(content) :
          content[k] = <<"-", " ", "a", "d", "d", ".", "\n">>

(***************************************************************************)
(* Claims about propagation and the release (Spec).                        *)
(***************************************************************************)
\* update_version_path has returned: every configured file was rewritten
Propagated ==
    \/ pc \in {"delete_changesets", "remove", "deleted", "done"}
    \/ pc = "panicked" /\ panic_at \in {"delete_changesets", "remove"}

\* the positions at which pat occurs in s
Occurrences(s, pat) == {i \in 1..Len(s) : StartsWithAt(s, pat, i)}

\* C5: after update_version_path succeeded, every configured file is its
\* former text with each occurrence of the old version string replaced by
\* the new one, the version field or not (1.2.3 inside the token 11.2.34
\* too), and nothing else changed.
C5_LiteralReplacement ==
    Propagated =>
        \A i \in 1..Len(version_paths) :
           LET p == version_paths[i] IN
           /\ files[p] = StrReplace(files0[p], current_version, new_version)
           /\ (files0[p] = FileEmbedded /\ current_version = V123) =>
                 files[p] = DunderVersionMarker \o <<" ">> \o Quoted(new_version)
                               \o <<"\n", "p", "i", "n", " ", "1">>
                               \o new_version \o <<"4", "\n">>
           /\ Occurrences(files0[p], current_version) = {} => files[p] = files0[p]

\* C5 witness: propagation succeeded on a file that held the old version in
\* its version field and inside a longer token, and both were replaced.
C5_Witness ==
    /\ Propagated
    /\ \E i \in 1..Len(version_paths) :
          /\ files0[version_paths[i]] = FileEmbedded
          /\ current_version = V123
          /\ Contains(files[version_paths[i]], <<"1">> \o new_version \o <<"4">>)
          /\ Contains(files[version_paths[i]], Quoted(new_version))

\* C6: when rewriting file K of the M configured files fails, files 1..K-1
\* hold the new version, files K+1..M are as they were, nothing is rolled
\* back, and the command has panicked without reporting success.
C6_NotTransactional ==
    (pc = "panicked" /\ panic_at = "rewrite") =>
        /\ \A i \in 1..(idx - 1) :
              files[version_paths[i]] =
                 StrReplace(files0[version_paths[i]], current_version, new_version)
        /\ \A i \in (idx + 1)..Len(version_paths) :
              files[version_paths[i]] = files0[version_paths[i]]
        /\ files[version_paths[1]] # files0[version_paths[1]] \/ idx = 1
        /\ ~success
        /\ store = store0

\* C6 witness: the rewrite of the second file failed after the first file
\* had been given the new version.
C6_Witness ==
    /\ pc = "panicked"
    /\ panic_at = "rewrite"
    /\ idx = 2
    /\ open_path(files[version_paths[1]]).version = new_version
    /\ files[version_paths[1]] # files0[version_paths[1]]

\* the version open_path reads from a text, <<>> when it reads none
RecognizedVersion(text) == open_path(text).version

\* C7 as claimed: after a successful release every configured file that held
\* a recognized version line beforehand carries the new version.
C7_Original ==
    pc = "done" =>
        \A i \in 1..Len(version_paths) :
           open_path(files0[version_paths[i]]).ok =>
              RecognizedVersion(files[version_paths[i]]) = new_version

\* C7, amended: the current version is read from the first configured file
\* only, and after a successful release every configured file whose
\* recognized version line held that same version carries the new version;
\* a file that does not hold that version string is left as it was.
C7_SameVersionEverywhere ==
    pc = "done" =>
        /\ current_version = RecognizedVersion(files0[version_paths[1]])
        /\ \A i \in 1..Len(version_paths) :
              LET before == open_path(files0[version_paths[i]])
                  after == open_path(files[version_paths[i]])
              IN  /\ (before.ok /\ before.version = current_version) =>
                        (after.ok /\ after.version = new_version)
                  /\ Occurrences(files0[version_paths[i]], current_version) = {} =>
                        files[version_paths[i]] = files0[version_paths[i]]

\* C7 witness: a release succeeded with two configured files that held the
\* same version, and both now read the new version.
C7_Witness ==
    /\ pc = "done"
    /\ Len(version_paths) = 2
    /\ files0[version_paths[2]] # files0[version_paths[1]]
    /\ RecognizedVersion(files0[version_paths[2]]) = current_version
    /\ RecognizedVersion(files[version_paths[1]]) = new_version
    /\ RecognizedVersion(files[version_paths[2]]) = new_version

\* the regular files among the entries of a listing
FilesOf(l) == {l[i] : i \in {j \in 1..Len(l) : l[j].kind = "file"}}

\* C10 as claimed: in every final state of a release, failed or not, either
\* all pending records are still in the store or all have been deleted.
C10_Original ==
    pc \in {"done", "panicked"} =>
        \/ FilesOf(store) = FilesOf(store0)
        \/ FilesOf(store) = {}

\* C10, amended: records are deleted only after the entry was written to
\* the changelog and every version file rewritten; a release that ends
\* without a failed deletion leaves either all pending records in the store
\* or none; a deletion that fails ends the cleanup with exactly the records
\* listed before the failing one deleted.
C10_BatchUnlessDeletionFails ==
    /\ FilesOf(store) # FilesOf(store0) =>
          /\ Propagated
          /\ changelog = ChangelogText(content)
          /\ content = new_changelog_entry(get_current_changesets(store0), new_version)
                          \o Lines(changelog0)
    /\ (pc = "panicked" /\ panic_at # "remove") => store = store0
    /\ pc = "done" => store = SelectEntries(store0, "dir")
    /\ (pc = "panicked" /\ panic_at = "remove") =>
          /\ store0[idx].kind = "file"
          /\ store = SelectEntries(SubSeq(store0, 1, idx - 1), "dir")
                        \o SubSeq(store0, idx, Len(store0))

\* C10 witness: the deletion of the second of two records failed after the
\* first had been deleted.
C10_Witness ==
    /\ pc = "panicked"
    /\ panic_at = "remove"
    /\ idx = 2
    /\ Cardinality(FilesOf(store0)) = 2
    /\ Cardinality(FilesOf(store)) = 1

(***************************************************************************)
(* Claims about cleanup (SpecCleanup).                                     *)
(***************************************************************************)
\* C8: a cleanup that succeeds leaves no regular file directly inside the
\* store and removes nothing else: the subdirectories, with what they hold,
\* are all still there, in place.
C8_CleanupRemovesFilesOnly ==
    pc = "deleted" =>
        /\ FilesOf(store) = {}
        /\ store = SelectEntries(store0, "dir")
        /\ \A i \in 1..Len(store0) :
              store0[i].kind = "dir" => \E j \in 1..Len(store) : store[j] = store0[i]

\* C8 witness: a cleanup succeeded on a store that held a file and a
\* subdirectory.
C8_Witness ==
    /\ pc = "deleted"
    /\ FilesOf(store0) # {}
    /\ \E i \in 1..Len(store0) : store0[i].kind = "dir"
    /\ Len(store) >= 1

\* C9: a cleanup invoked on a store directory that exists and holds no
\* file changes nothing and does not fail: every step of it leaves the
\* store as it is and leads on to its successful return.
C9_CleanupIdempotent ==
    [][(pc \in {"delete_changesets", "remove"} /\ store_exists /\ FilesOf(store) = {})
          => (store' = store /\ store_exists' = store_exists
                /\ pc' \in {"remove", "deleted"})]_vars

\* C9 witness: a second cleanup returned on a store the first had emptied
\* of its files.
C9_Witness ==
    /\ pc = "deleted"
    /\ calls = 2
    /\ FilesOf(store0) # {}
    /\ FilesOf(store) = {}

(***************************************************************************)
(* Claims about the order of the release stages (Spec).                    *)
(***************************************************************************)
\* every configured file holds what its rewrite gives
AllRewritten ==
    \A i \in 1..Len(version_paths) :
       files[version_paths[i]] =
          StrReplace(files0[version_paths[i]], current_version, new_version)

\* C11: the stages of a release run in the order changelog write, version
\* propagation, cleanup, without overlap: CHANGELOG.md changes only while no
\* version file and no record has been touched, a version file changes only
\* after the changelog was written and before any record is deleted, and a
\* record is deleted only after every configured version file was rewritten.
C11_StageOrder ==
    [][/\ changelog' # changelog =>
             (pc = "create_changelog" /\ files = files0 /\ store = store0)
       /\ files' # files =>
             (/\ pc = "rewrite"
              /\ changelog = ChangelogText(content)
              /\ changelog # changelog0
              /\ store = store0)
       /\ store' # store =>
             (/\ pc = "remove"
              /\ changelog = ChangelogText(content)
              /\ changelog # changelog0
              /\ AllRewritten
              /\ files # files0)]_vars

\* C11 witness: a record has been deleted, after the changelog was written
\* and both configured version files were rewritten.
C11_Witness ==
    /\ pc \in {"remove", "deleted"}
    /\ store # store0
    /\ Len(version_paths) = 2
    /\ AllRewritten
    /\ files[version_paths[2]] # files0[version_paths[2]]
    /\ changelog # changelog0

(***************************************************************************)
(* The version reader on its own (SpecReader): find_version on files of    *)
(* several lines.                                                          *)
(***************************************************************************)
\* version = "1.2.3"
ReaderLinePlain == VersionMarker \o <<" ">> \o Quoted(V123)

\* __version__ = "0.4.1"
ReaderLineDunder == DunderVersionMarker \o <<" ">> \o Quoted(V041)

\* version = 1.2.3 : a marker, and no quoted version
ReaderLineBare == VersionMarker \o <<" ">> \o V123

\* dep "9.9.9" : a quoted version, and no marker
ReaderLineDep == <<"d", "e", "p", " ">> \o Quoted(V999)

\* name : neither
ReaderLineName == <<"n", "a", "m", "e">>

\* "1.9.9" version = "1.2.3" : a marker and two quoted versions
ReaderLineTwo == Quoted(V199) \o <<" ">> \o ReaderLinePlain

ReaderLines ==
    {ReaderLinePlain, ReaderLineDunder, ReaderLineBare, ReaderLineDep,
     ReaderLineName, ReaderLineTwo}

RECURSIVE TextOf(_)
TextOf(lines) ==
    IF Len(lines) = 0 THEN <<>>
    ELSE Head(lines) \o <<"\n">> \o TextOf(Tail(lines))

ReaderFiles == {TextOf(ls) : ls \in SeqsUpTo(ReaderLines, MaxLines)}

\* find_version: open_path on the first configured path; the file may fail
\* to open, and a line may fail to be read
find_version ==
    /\ pc = "find_version"
    /\ \E io \in {"ok", "open_failed", "read_failed"} :
          LET r == open_path(files[FirstPath(version_paths)]) IN
          /\ result' =
                CASE io = "ok" -> r
                  [] io = "open_failed" ->
                        [ok |-> FALSE, version |-> <<>>,
                         error |-> "error opening file",
                         line |-> <<>>, names |-> <<>>]
                  [] io = "read_failed" ->
                        [ok |-> FALSE, version |-> <<>>,
                         error |-> "error reading the file",
                         line |-> <<>>, names |-> <<>>]
          /\ IF io = "ok" /\ r.ok
             THEN /\ current_version' = r.version
                  /\ pc' = "found"
                  /\ UNCHANGED panic_at
             ELSE /\ Panic
                  /\ UNCHANGED current_version
    /\ UNCHANGED <<files, changelog, store_exists, store, changesets, change,
                   new_version, content, entries, idx, success, calls,
                   config_vars, toml_vars,
                   create_vars, fs_vars>>

InitReader ==
    /\ pc = "find_version"
    /\ \E n \in 1..MaxPaths, first \in ReaderFiles :
          /\ version_paths = [i \in 1..n |-> i]
          /\ files = [i \in 1..n |-> IF i = 1 THEN first ELSE FileOther]
    /\ files0 = files
    /\ changelog = PriorChangelog
    /\ changelog0 = changelog
    /\ store_exists = TRUE
    /\ store = <<>>
    /\ store0 = store
    /\ changesets = <<>>
    /\ current_version = <<>>
    /\ change = "none"
    /\ new_version = <<>>
    /\ content = <<>>
    /\ entries = <<>>
    /\ idx = 0
    /\ panic_at = "none"
    /\ success = FALSE
    /\ calls = 0
    /\ InitAux

NextReader == find_version

SpecReader == InitReader /\ [][NextReader]_vars

(***************************************************************************)
(* Claims about the version reader (SpecReader).                           *)
(***************************************************************************)
\* three groups of digits separated by dots
IsVersionString(v) ==
    LET parts == Split(v, ".") IN
    /\ Len(parts) = 3
    /\ \A i \in 1..3 :
          /\ Len(parts[i]) > 0
          /\ \A k \in 1..Len(parts[i]) : parts[i][k] \in Digits

\* the versions a line holds between double quotes
QuotedVersionsIn(line) ==
    LET quotes == {a \in 1..Len(line) : line[a] = "\""} IN
    {v \in {SubSeq(line, i + 1, j - 1) : i \in quotes, j \in quotes} :
        IsVersionString(v)}

\* a line holds one of the two markers
HoldsMarker(line) ==
    \/ Contains(line, <<"v", "e", "r", "s", "i", "o", "n", " ", "=">>)
    \/ Contains(line, <<"_", "_", "v", "e", "r", "s", "i", "o", "n", "_", "_", " ", "=">>)

\* the lines of the first configured file
FirstFileLines == Lines(files[version_paths[1]])

\* the lines of the first configured file that hold a marker
MarkerLines == {k \in 1..Len(FirstFileLines) : HoldsMarker(FirstFileLines[k])}

\* C12: the version reader reads the first configured path only, and the
\* version it returns is a quoted three-group version of the first line of
\* that file that holds a marker; what follows that line has no influence:
\* the file cut after that line gives the same version.
C12_FirstMarkerLineDecides ==
    pc = "found" =>
       /\ result.ok
       /\ current_version = result.version
       /\ MarkerLines # {}
       /\ LET k == CHOOSE j \in MarkerLines : \A m \in MarkerLines : j <= m IN
          /\ IsVersionString(result.version)
          /\ result.version \in QuotedVersionsIn(FirstFileLines[k])
          /\ result.line = FirstFileLines[k]
          /\ (QuotedVersionsIn(FirstFileLines[k]) = {V123}
                 => result.version = V123)
          /\ (QuotedVersionsIn(FirstFileLines[k]) = {V041}
                 => result.version = V041)
          /\ open_path(TextOf(SubSeq(FirstFileLines, 1, k))).version
                = result.version

\* C12 witness: a version was returned from a file whose first marker line
\* is followed by a marker line with another version, while a second
\* configured file holds a third one.
C12_Witness ==
    /\ pc = "found"
    /\ Len(version_paths) = 2
    /\ Len(FirstFileLines) = 3
    /\ FirstFileLines[1] = ReaderLineDep
    /\ FirstFileLines[2] = ReaderLinePlain
    /\ FirstFileLines[3] = ReaderLineDunder
    /\ result.version = V123

\* C19: the failures of the version reader are fatal and told apart. When
\* the first marker line holds no quoted version the read fails with a
\* message that names that line, whatever the later lines hold; when no line
\* holds a marker it fails with the message that lists the two marker names;
\* when the file cannot be opened or read it fails; and a failed read
\* returns no version.
C19_ReaderFailures ==
    pc # "find_version" =>
       /\ (pc = "panicked" <=> ~result.ok)
       /\ (pc = "panicked" =>
              /\ result.version = <<>>
              /\ current_version = <<>>
              /\ result.error \in {"error opening file",
                                   "error reading the file",
                                   "no version number in line",
                                   "version not found"})
       /\ (result.error \notin {"error opening file", "error reading the file"}
             => /\ (MarkerLines = {} =>
                       /\ pc = "panicked"
                       /\ result.error = "version not found"
                       /\ result.names = <<"version", "__version__">>)
                /\ (MarkerLines # {} =>
                       LET k == CHOOSE j \in MarkerLines :
                                   \A m \in MarkerLines : j <= m
                       IN  QuotedVersionsIn(FirstFileLines[k]) = {} =>
                              /\ pc = "panicked"
                              /\ result.error = "no version number in line"
                              /\ result.line = FirstFileLines[k]))

\* C19 witness: the read failed on a first marker line without version
\* number although the next line holds a marker and a version.
C19_Witness ==
    /\ pc = "panicked"
    /\ result.error = "no version number in line"
    /\ Len(FirstFileLines) >= 2
    /\ FirstFileLines[1] = ReaderLineBare
    /\ FirstFileLines[2] = ReaderLinePlain
    /\ result.line = ReaderLineBare

(***************************************************************************)
(* Largest-version selection (SpecLargest).                                *)
(***************************************************************************)
\* p.parse::<u32>() succeeds: digits after an optional plus sign; the
\* numbers considered have at most nine digits, which always fit 32 bits
ParsesU32(p) ==
    LET digits == IF Len(p) > 0 /\ p[1] = "+" THEN Tail(p) ELSE p IN
    /\ Len(digits) \in 1..9
    /\ \A k \in 1..Len(digits) : digits[k] \in Digits

\* the value p.parse::<u32>() gives
ParseU32(p) == ParseNat(IF p[1] = "+" THEN Tail(p) ELSE p)

\* parse_version: the components that parse, as a triple when there are
\* exactly three of them, and (0, 0, 0) otherwise
parse_version(version) ==
    LET pieces == SelectSeq(Split(version, "."), ParsesU32)
        parts == [i \in 1..Len(pieces) |-> ParseU32(pieces[i])]
    IN  IF Len(parts) = 3 THEN parts ELSE <<0, 0, 0>>

\* a mutation of TupleLess: the patch component is compared first
TupleLessReversed(a, b) ==
    \/ a[3] < b[3]
    \/ a[3] = b[3] /\ a[2] < b[2]
    \/ a[3] = b[3] /\ a[2] = b[2] /\ a[1] < b[1]

\* the order of (u32, u32, u32) that Iterator::max() uses
TupleLess(a, b) ==
    \/ a[1] < b[1]
    \/ a[1] = b[1] /\ a[2] < b[2]
    \/ a[1] = b[1] /\ a[2] = b[2] /\ a[3] < b[3]

\* find_largest_version: None for no changeset, else the largest triple
\* written back as a string
find_largest_version(list) ==
    IF Len(list) = 0 THEN [some |-> FALSE, version |-> <<>>]
    ELSE LET triples == {parse_version(list[i].version) : i \in 1..Len(list)}
             top == CHOOSE t \in triples :
                       \A u \in triples : ~TupleLess(t, u)
         IN  [some |-> TRUE, version |-> FormatVersion(top[1], top[2], top[3])]

V100 == <<"1", ".", "0", ".", "0">>

V210 == <<"2", ".", "1", ".", "0">>

V1100 == <<"1", ".", "1", "0", ".", "0">>

\* 1.x.2.3 : four components, one of them not a number
VMixed == <<"1", ".", "x", ".", "2", ".", "3">>

\* 1.2 : two components
VShort == <<"1", ".", "2">>

\* 1.2.3.4 : four numeric components
VFour == <<"1", ".", "2", ".", "3", ".", "4">>

\* 1.x.2 : three components, one of them not a number
VAlpha == <<"1", ".", "x", ".", "2">>

V000 == <<"0", ".", "0", ".", "0">>

VersionFields == {V100, V210, V199, V1100, VMixed, VShort, VFour, VAlpha, V000}

VersionedChangesets ==
    {Changeset("a", "PATCH", <<>>, TagBug, <<"f", "i", "x">>, v) :
        v \in VersionFields}

largest_version ==
    /\ pc = "find_largest_version"
    /\ result' = find_largest_version(changesets)
    /\ pc' = "largest"
    /\ UNCHANGED <<files, changelog, store_exists, store, changesets,
                   current_version, change, new_version, content, entries,
                   idx, panic_at, success, calls, config_vars, toml_vars,
                   create_vars, fs_vars>>

InitLargest ==
    /\ pc = "find_largest_version"
    /\ changesets \in SeqsUpTo(VersionedChangesets, MaxChangesets)
    /\ version_paths = <<1>>
    /\ files = [i \in 1..1 |-> FilePlain]
    /\ files0 = files
    /\ changelog = PriorChangelog
    /\ changelog0 = changelog
    /\ store_exists = TRUE
    /\ store = <<>>
    /\ store0 = store
    /\ current_version = <<>>
    /\ change = "none"
    /\ new_version = <<>>
    /\ content = <<>>
    /\ entries = <<>>
    /\ idx = 0
    /\ panic_at = "none"
    /\ success = FALSE
    /\ calls = 0
    /\ InitAux

NextLargest == largest_version

SpecLargest == InitLargest /\ [][NextLargest]_vars

\* the version fields handed to find_largest_version
Fields == {changesets[i].version : i \in 1..Len(changesets)}

\* v ranks below w: its first differing component, read as a number, is
\* the smaller one
RanksBelow(v, w) ==
    LET a == Split(v, ".")
        b == Split(w, ".")
    IN  \E k \in 1..3 :
           /\ \A m \in 1..(k - 1) : ParseNat(a[m]) = ParseNat(b[m])
           /\ ParseNat(a[k]) < ParseNat(b[k])

\* C13: find_largest_version returns nothing for no changeset; when every
\* version field is three numeric groups it returns the field that no other
\* field outranks in the order of (major, minor, patch) read as numbers, so
\* 1.10.0 ranks above 1.9.9, and [1.0.0, 2.1.0, 1.9.9] gives 2.1.0.
C13_LargestVersion ==
    pc = "largest" =>
       /\ (changesets = <<>> <=> ~result.some)
       /\ ((changesets # <<>> /\ \A v \in Fields : IsVersionString(v)) =>
              /\ result.version \in Fields
              /\ \A v \in Fields : ~RanksBelow(result.version, v))
       /\ (Fields = {V199, V1100} => result.version = V1100)
       /\ ([i \in 1..Len(changesets) |-> changesets[i].version]
              = <<V100, V210, V199>> => result.version = V210)

\* C13 witness: 1.10.0 was returned for the versions 1.9.9, 1.10.0, 1.0.0.
C13_Witness ==
    /\ pc = "largest"
    /\ Len(changesets) = 3
    /\ changesets[1].version = V199
    /\ changesets[2].version = V1100
    /\ changesets[3].version = V100
    /\ result = [some |-> TRUE, version |-> V1100]

\* the triple a version field stands for when a field that is not three
\* numeric groups counts as (0, 0, 0)
TripleOf(v) ==
    IF IsVersionString(v)
    THEN LET parts == Split(v, ".")
         IN  <<ParseNat(parts[1]), ParseNat(parts[2]), ParseNat(parts[3])>>
    ELSE <<0, 0, 0>>

\* C21: a version field that is not exactly three numeric dot-separated
\* groups counts as (0, 0, 0) in find_largest_version: the result is the
\* largest of the fields' triples with every such field read as (0, 0, 0),
\* so such a field gives the result only when the result is 0.0.0.
C21_MalformedIsZero ==
    (pc = "largest" /\ changesets # <<>>) =>
       \E v \in Fields :
          /\ result.version =
                FormatVersion(TripleOf(v)[1], TripleOf(v)[2], TripleOf(v)[3])
          /\ \A w \in Fields : ~TupleLess(TripleOf(v), TripleOf(w))

(***************************************************************************)
(* Configuration resolution (SpecConfig): find_version_in_file and         *)
(* load_changeforge_config over the two configuration files.               *)
(***************************************************************************)
\* toml::Value: a table is the sequence of its key-value pairs
TomlString(text) == [type |-> "string", text |-> text, items |-> <<>>, table |-> <<>>]

TomlBoolean(text) == [type |-> "boolean", text |-> text, items |-> <<>>, table |-> <<>>]

TomlArray(items) == [type |-> "array", text |-> <<>>, items |-> items, table |-> <<>>]

TomlTable(pairs) == [type |-> "table", text |-> <<>>, items |-> <<>>, table |-> pairs]

Pair(key, value) == [key |-> key, value |-> value]

\* Value::get(key) is Some: the value is a table that holds the key
Has(v, key) ==
    /\ v.type = "table"
    /\ \E i \in 1..Len(v.table) : v.table[i].key = key

\* the value Value::get(key) holds
Get(v, key) == v.table[CHOOSE i \in 1..Len(v.table) : v.table[i].key = key].value

\* Value::to_string(): a string is written between double quotes
ValueToString(v) == IF v.type = "string" THEN Quoted(v.text) ELSE v.text

\* the loop over the array: path.to_string().replace("\"", "")
PathsOf(paths) ==
    [i \in 1..Len(paths.items) |-> StrReplace(ValueToString(paths.items[i]), <<"\"">>, <<>>)]

\* find_version_in_file, lines 36-52: the paths of changeforge.toml, taken
\* only when the file reads and parses, holds the section, and the section
\* holds a version_path array that is not empty
PrimaryPaths(file) ==
    IF /\ file.exists
       /\ file.parses
       /\ Has(file.doc, "changeforge")
       /\ Has(Get(file.doc, "changeforge"), "version_path")
       /\ Get(Get(file.doc, "changeforge"), "version_path").type = "array"
       /\ Len(Get(Get(file.doc, "changeforge"), "version_path").items) > 0
    THEN [some |-> TRUE,
          paths |-> PathsOf(Get(Get(file.doc, "changeforge"), "version_path"))]
    ELSE [some |-> FALSE, paths |-> <<>>]

Resolved(paths) == [ok |-> TRUE, paths |-> paths, error |-> "none"]

Fatal(message) == [ok |-> FALSE, paths |-> <<>>, error |-> message]

\* a mutation of SecondaryPaths: an array without paths is returned as it is
SecondaryPathsUnchecked(file) ==
    IF ~file.exists THEN Fatal("Error reading the pyproject.toml file")
    ELSE IF ~file.parses THEN Fatal("Error getting the file")
    ELSE IF ~Has(file.doc, "tool")
         THEN Fatal("The pyproject doesn't have tools associated")
    ELSE IF ~Has(Get(file.doc, "tool"), "changeforge")
         THEN Fatal("The pyproject doesn't have changeforge as tool")
    ELSE LET cf == Get(Get(file.doc, "tool"), "changeforge") IN
         IF ~Has(cf, "version_path")
         THEN Fatal("The changeforge utility doesn't include a version_path field")
         ELSE IF Get(cf, "version_path").type # "array"
              THEN Fatal("The version path doesn't include a path")
         ELSE Resolved(PathsOf(Get(cf, "version_path")))

\* find_version_in_file, lines 54-84: the paths of [tool.changeforge] of
\* pyproject.toml, or the panic
SecondaryPaths(file) ==
    IF ~file.exists THEN Fatal("Error reading the pyproject.toml file")
    ELSE IF ~file.parses THEN Fatal("Error getting the file")
    ELSE IF ~Has(file.doc, "tool")
         THEN Fatal("The pyproject doesn't have tools associated")
    ELSE IF ~Has(Get(file.doc, "tool"), "changeforge")
         THEN Fatal("The pyproject doesn't have changeforge as tool")
    ELSE LET cf == Get(Get(file.doc, "tool"), "changeforge") IN
         IF ~Has(cf, "version_path")
         THEN Fatal("The changeforge utility doesn't include a version_path field")
         ELSE IF Get(cf, "version_path").type # "array"
              THEN Fatal("The version path doesn't include a path")
         ELSE IF Len(Get(cf, "version_path").items) = 0
              THEN Fatal("Couldn't find any version paths in the configuration")
         ELSE Resolved(PathsOf(Get(cf, "version_path")))

\* find_version_in_file on the two files
find_version_in_file(primary, secondary) ==
    IF PrimaryPaths(primary).some
    THEN Resolved(PrimaryPaths(primary).paths)
    ELSE SecondaryPaths(secondary)

\* str::trim().is_empty()
IsBlank(text) == \A i \in 1..Len(text) : text[i] \in {" ", "\t", "\n", "\r"}

\* cf.get(key).and_then(|v| v.as_bool()).unwrap_or(true)
BoolOrTrue(cf, key) ==
    IF Has(cf, key) /\ Get(cf, key).type = "boolean"
    THEN Get(cf, key).text = <<"t", "r", "u", "e">>
    ELSE TRUE

\* cf.get("templates_dir").and_then(|v| v.as_str()) kept when not blank
TemplatesDir(cf) ==
    IF /\ Has(cf, "templates_dir")
       /\ Get(cf, "templates_dir").type = "string"
       /\ ~IsBlank(Get(cf, "templates_dir").text)
    THEN [some |-> TRUE, dir |-> Get(cf, "templates_dir").text]
    ELSE [some |-> FALSE, dir |-> <<>>]

\* the CFConfig built from a section
ConfigOf(cf) ==
    [ai_enabled |-> BoolOrTrue(cf, "ai_enabled"),
     templates_dir |-> TemplatesDir(cf),
     commit_on_create |-> BoolOrTrue(cf, "commit_on_create")]

DefaultConfig ==
    [ai_enabled |-> TRUE, templates_dir |-> [some |-> FALSE, dir |-> <<>>],
     commit_on_create |-> TRUE]

\* a mutation of load_changeforge_config: pyproject.toml is looked at first
load_changeforge_config_secondary(primary, secondary) ==
    IF /\ secondary.exists /\ secondary.parses /\ Has(secondary.doc, "tool")
       /\ Has(Get(secondary.doc, "tool"), "changeforge")
    THEN ConfigOf(Get(Get(secondary.doc, "tool"), "changeforge"))
    ELSE IF primary.exists /\ primary.parses /\ Has(primary.doc, "changeforge")
         THEN ConfigOf(Get(primary.doc, "changeforge"))
         ELSE DefaultConfig

\* load_changeforge_config on the two files
load_changeforge_config(primary, secondary) ==
    IF primary.exists /\ primary.parses /\ Has(primary.doc, "changeforge")
    THEN ConfigOf(Get(primary.doc, "changeforge"))
    ELSE IF /\ secondary.exists /\ secondary.parses /\ Has(secondary.doc, "tool")
            /\ Has(Get(secondary.doc, "tool"), "changeforge")
         THEN ConfigOf(Get(Get(secondary.doc, "tool"), "changeforge"))
         ELSE DefaultConfig

\* the version_path entries a section may hold: none, a string, or an array
\* of up to MaxPaths paths named after the file
VersionPathFields(name) ==
    {<<>>, <<Pair("version_path", TomlString(<<name, "1">>))>>}
    \cup {<<Pair("version_path",
                 TomlArray([i \in 1..k |-> TomlString(<<name, DigitChars[i + 1]>>)]))>> :
             k \in 0..MaxPaths}

\* the toggles a section may hold: none, well-typed ones, ill-typed ones
ToggleFields(name) ==
    {<<>>,
     <<Pair("ai_enabled", TomlBoolean(<<"f", "a", "l", "s", "e">>)),
       Pair("templates_dir", TomlString(<<name, "t">>))>>,
     <<Pair("ai_enabled", TomlString(<<"n", "o">>)),
       Pair("templates_dir", TomlString(<<" ">>)),
       Pair("commit_on_create", TomlBoolean(<<"f", "a", "l", "s", "e">>))>>}

Sections(name) ==
    {TomlTable(vp \o tg) : vp \in VersionPathFields(name), tg \in ToggleFields(name)}

ParsedFile(doc) == [exists |-> TRUE, parses |-> TRUE, doc |-> doc]

UnparsableFile == [exists |-> TRUE, parses |-> FALSE, doc |-> TomlTable(<<>>)]

PrimaryFiles ==
    {AbsentFile, UnparsableFile, ParsedFile(TomlTable(<<>>))}
    \cup {ParsedFile(TomlTable(<<Pair("changeforge", sec)>>)) : sec \in Sections("c")}

SecondaryFiles ==
    {AbsentFile, UnparsableFile, ParsedFile(TomlTable(<<>>)),
     ParsedFile(TomlTable(<<Pair("tool", TomlTable(<<>>))>>))}
    \cup {ParsedFile(TomlTable(<<Pair("tool", TomlTable(<<Pair("changeforge", sec)>>))>>)) :
             sec \in Sections("p")}

resolve_version_paths ==
    /\ pc = "resolve"
    /\ LET r == find_version_in_file(changeforge_toml, pyproject_toml) IN
       /\ result' = r
       /\ IF r.ok
          THEN pc' = "resolved_paths" /\ UNCHANGED panic_at
          ELSE Panic
    /\ UNCHANGED <<files, changelog, store_exists, store, changesets,
                   current_version, change, new_version, content, entries,
                   idx, success, calls, config_vars, toml_vars,
                   create_vars, fs_vars>>

resolve_config ==
    /\ pc = "resolve"
    /\ result' = [ok |-> TRUE,
                  config |-> load_changeforge_config(changeforge_toml, pyproject_toml)]
    /\ pc' = "resolved_config"
    /\ UNCHANGED <<files, changelog, store_exists, store, changesets,
                   current_version, change, new_version, content, entries,
                   idx, panic_at, success, calls, config_vars, toml_vars,
                   create_vars, fs_vars>>

InitConfig ==
    /\ pc = "resolve"
    /\ changeforge_toml \in PrimaryFiles
    /\ pyproject_toml \in SecondaryFiles
    /\ result = NoResult
    /\ version_paths = <<1>>
    /\ files = [i \in 1..1 |-> FilePlain]
    /\ files0 = files
    /\ changelog = PriorChangelog
    /\ changelog0 = changelog
    /\ store_exists = TRUE
    /\ store = <<>>
    /\ store0 = store
    /\ changesets = <<>>
    /\ current_version = <<>>
    /\ change = "none"
    /\ new_version = <<>>
    /\ content = <<>>
    /\ entries = <<>>
    /\ idx = 0
    /\ panic_at = "none"
    /\ success = FALSE
    /\ calls = 0
    /\ InitCreateVars
    /\ InitFs

NextConfig ==
    \/ resolve_version_paths
    \/ resolve_config

SpecConfig == InitConfig /\ [][NextConfig]_vars

(***************************************************************************)
(* Claims about configuration resolution (SpecConfig).                     *)
(***************************************************************************)
\* changeforge.toml is present and holds the section [changeforge]
PrimaryUsable ==
    /\ changeforge_toml.exists
    /\ changeforge_toml.parses
    /\ Has(changeforge_toml.doc, "changeforge")

\* pyproject.toml is present and holds the section [tool.changeforge]
SecondaryUsable ==
    /\ pyproject_toml.exists
    /\ pyproject_toml.parses
    /\ Has(pyproject_toml.doc, "tool")
    /\ Has(Get(pyproject_toml.doc, "tool"), "changeforge")

PrimarySection == Get(changeforge_toml.doc, "changeforge")

SecondarySection == Get(Get(pyproject_toml.doc, "tool"), "changeforge")

\* the section has a version_path array of at least one path
YieldsPaths(section) ==
    /\ Has(section, "version_path")
    /\ Get(section, "version_path").type = "array"
    /\ Len(Get(section, "version_path").items) > 0

\* the paths as the section of the file named c or p lists them
ListedPaths(section, name) ==
    [i \in 1..Len(Get(section, "version_path").items) |-> <<name, DigitChars[i + 1]>>]

\* C14: whenever changeforge.toml is present and holds the section
\* [changeforge], the version paths and the toggles are those of that
\* section, never those of pyproject.toml.
C14_PrimaryExclusive ==
    PrimaryUsable =>
       /\ (pc = "resolved_config" =>
              result.config = ConfigOf(PrimarySection))
       /\ (pc = "resolved_paths" =>
              \A i \in 1..Len(result.paths) : result.paths[i][1] = "c")

PriorUnterminated == SubSeq(PriorChangelog, 1, Len(PriorChangelog) - 1)

\* a prior changelog with CRLF line ends
PriorCRLF ==
    <<"#", " ", "L", "o", "g", "\r", "\n", "\r", "\n", "o", "l", "d", "\r", "\n">>

\* a prior changelog in Latin-1: the second line holds an e acute
PriorLatin1 ==
    <<"#", " ", "L", "o", "g", "\n", "-", " ", "c", "a", "f", InvalidByte, ".", "\n",
      "-", " ", "o", "l", "d", ".", "\n">>

PriorChangelogs ==
    {PriorChangelog, PriorUnterminated, PriorCRLF, PriorLatin1, <<>>}

InitChangelog ==
    /\ pc = "bump_version"
    /\ changelog \in PriorChangelogs
    /\ changelog0 = changelog
    /\ version_paths = <<1>>
    /\ files = [i \in 1..1 |-> FilePlain]
    /\ files0 = files
    /\ store_exists = TRUE
    /\ store \in {l \in Listings(MaxStore) : HasFile(l)}
    /\ store0 = store
    /\ changesets = <<>>
    /\ current_version = <<>>
    /\ change = "none"
    /\ new_version = <<>>
    /\ content = <<>>
    /\ entries = <<>>
    /\ idx = 0
    /\ panic_at = "none"
    /\ success = FALSE
    /\ calls = 0
    /\ InitAux

SpecChangelog == InitChangelog /\ [][Next]_vars

\* the lines of a text, whether they decode or not
RawLines(text) == Lines(text)

\* C15: once the changelog is rewritten its lines are those of the new
\* block followed by every line of the prior file, in the same order.
C15_PrependKeepsPrior ==
    (pc \notin {"bump_version", "create_changelog", "panicked"}
        \/ (pc = "panicked" /\ panic_at \notin {"bump_version", "create_changelog"}))
    => RawLines(changelog)
          = RawLines(ChangelogText(new_changelog_entry(changesets, new_version)))
               \o RawLines(changelog0)

(***************************************************************************)
(* The create flow (SpecCreate): process_answers and create_changesets,    *)
(* prompt by prompt. An option of a Select prompt is its text, the icon at *)
(* its head being one character.                                           *)
(***************************************************************************)
Letters ==
    {"a", "b", "c", "d", "e", "f", "g", "h", "i", "j", "k", "l", "m", "n", "o",
     "p", "q", "r", "s", "t", "u", "v", "w", "x", "y", "z", "A", "B", "C", "D",
     "E", "F", "G", "H", "I", "J", "K", "L", "M", "N", "O", "P", "Q", "R", "S",
     "T", "U", "V", "W", "X", "Y", "Z"}

OptionRemove ==
    <<"<coffin>", " ", " ", "R", "e", "m", "o", "v", "e", ":", " ", "R", "e",
      "m", "o", "v", "e", "d", " ", "f", "e", "a", "t", "u", "r", "e", "s",
      ".">>

OptionRename ==
    <<"<truck>", " ", "R", "e", "n", "a", "m", "e", ":", " ", "R", "e", "n",
      "a", "m", "e", "d", " ", "f", "e", "a", "t", "u", "r", "e", "s", ".">>

OptionIOMajor ==
    <<"<pencil>", " ", " ", "I", "/", "O", ":", " ", "C", "h", "a", "n", "g",
      "i", "n", "g", " ", "i", "n", "p", "u", "t", "/", "o", "u", "t", "p",
      "u", "t", " ", "o", "f", " ", "f", "e", "a", "t", "u", "r", "e", "s",
      ".">>

OptionBehavior ==
    <<"<collision>", " ", "B", "e", "h", "a", "v", "i", "o", "r", ":", " ",
      "C", "h", "a", "n", "g", "i", "n", "g", " ", "f", "e", "a", "t", "u",
      "r", "e", "s", " ", "b", "e", "h", "a", "v", "i", "o", "r", ".">>

OptionFeature ==
    <<"<sparkles>", " ", "F", "e", "a", "t", "u", "r", "e", ":", " ", "N",
      "e", "w", " ", "f", "e", "a", "t", "u", "r", "e", ".">>

OptionAdd ==
    <<"<plus>", " ", "A", "d", "d", ":", " ", "A", "d", "d", " ", "f", "u",
      "n", "c", "t", "i", "o", "n", "a", "l", "i", "t", "y", " ", "t", "o",
      " ", "e", "x", "i", "s", "t", "i", "n", "g", " ", "f", "e", "a", "t",
      "u", "r", "e", ".">>

OptionIOMinor ==
    <<"<pencil>", " ", " ", "I", "/", "O", ":", " ", "I", "n", "c", "l", "u",
      "d", "e", " ", "o", "p", "t", "i", "o", "n", "a", "l", " ", "i", "n",
      "p", "u", "t", "/", "o", "u", "t", "p", "u", "t", " ", "t", "o", " ",
      "a", " ", "f", "e", "a", "t", "u", "r", "e", ".">>

OptionDeprecated ==
    <<"<wastebasket>", " ", " ", "D", "e", "p", "r", "e", "c", "a", "t", "e",
      "d", ":", " ", "D", "e", "p", "r", "e", "c", "a", "t", "e", "d", " ",
      "f", "e", "a", "t", "u", "r", "e", "s", ".">>

OptionRefactor ==
    <<"<recycle>", " ", " ", "R", "e", "f", "a", "c", "t", "o", "r", ":",
      " ", "R", "e", "f", "a", "c", "t", "o", "r", " ", "o", "f", " ", "e",
      "x", "i", "s", "t", "i", "n", "g", " ", "c", "o", "d", "e", ".">>

OptionBug ==
    <<"<bug>", " ", "B", "u", "g", ":", " ", "F", "i", "x", " ", "a", " ",
      "b", "u", "g", ".">>

OptionOptimization ==
    <<"<zap>", " ", "O", "p", "t", "i", "m", "i", "z", "a", "t", "i", "o",
      "n", ":", " ", "S", "i", "m", "p", "l", "e", " ", "o", "p", "t", "i",
      "m", "i", "z", "a", "t", "i", "o", "n", " ", "o", "f", " ", "c", "o",
      "d", "e", ".">>

OptionTests ==
    <<"<test tube>", " ", "T", "e", "s", "t", "s", ":", " ", "I", "n", "c",
      "l", "u", "d", "e", " ", "o", "r", " ", "u", "p", "d", "a", "t", "e",
      " ", "t", "e", "s", "t", "s", ".">>

OptionPatch ==
    <<"<bandage>", " ", "P", "a", "t", "c", "h", ":", " ", "I", "n", "c",
      "l", "u", "d", "e", " ", "o", "r", " ", "d", "e", "l", "e", "t", "e",
      " ", "l", "o", "g", "s", ",", " ", "c", "a", "t", "c", "h", " ", "e",
      "r", "r", "o", "r", "s", " ", "o", "r", " ", "r", "e", "l", "a", "t",
      "e", "d", " ", "t", "h", "i", "n", "g", "s", ".">>

OptionMajor ==
    <<"<collision>", " ", "M", "A", "J", "O", "R", ":", " ", "M", "o", "s",
      "t", " ", "o", "f", " ", "t", "h", "e", " ", "t", "i", "m", "e", " ",
      "r", "e", "l", "a", "t", "e", "d", " ", "t", "o", " ", "b", "r", "e",
      "a", "k", "i", "n", "g", " ", "c", "h", "a", "n", "g", "e", "s", ".">>

OptionMinor ==
    <<"<sparkles>", " ", "M", "I", "N", "O", "R", ":", " ", "N", "e", "w",
      " ", "f", "e", "a", "t", "u", "r", "e", "s", " ", "t", "h", "a", "t",
      " ", "k", "e", "e", "p", " ", "b", "a", "c", "k", "w", "a", "r", "d",
      "s", " ", "c", "o", "m", "p", "a", "t", "i", "b", "i", "l", "i", "t",
      "y", ".">>

OptionPatchKind ==
    <<"<bandage>", " ", "P", "A", "T", "C", "H", ":", " ", "R", "e", "f",
      "a", "c", "t", "o", "r", "s", ",", " ", "b", "u", "g", "s", ",", " ",
      "f", "i", "x", "e", "s", " ", "a", "n", "d", " ", "s", "m", "a", "l",
      "l", " ", "c", "h", "a", "n", "g", "e", "s", ".">>

\* the options of the change type prompt of create_name_and_type
ChangeOptions == <<OptionMajor, OptionMinor, OptionPatchKind>>

\* select_tags(change_type): the options of the tag prompt
select_tags(change_type) ==
    IF change_type = <<"M", "A", "J", "O", "R">>
    THEN <<OptionRemove, OptionRename, OptionIOMajor, OptionBehavior>>
    ELSE IF change_type = <<"M", "I", "N", "O", "R">>
         THEN <<OptionFeature, OptionAdd, OptionIOMinor, OptionDeprecated>>
         ELSE <<OptionRefactor, OptionBug, OptionOptimization, OptionTests,
                OptionPatch>>

\* first index at or after i that holds no letter (Len(s) + 1 when none)
RECURSIVE LetterRunEnd(_, _)
LetterRunEnd(s, i) ==
    IF i > Len(s) \/ s[i] \notin Letters THEN i ELSE LetterRunEnd(s, i + 1)

\* the regular expression ([A-Za-z]+): matches at position i
TagMatchAt(s, i) ==
    /\ s[i] \in Letters
    /\ LetterRunEnd(s, i) <= Len(s)
    /\ s[LetterRunEnd(s, i)] = ":"

\* set_tag, lines 153-158: group 1 of the leftmost match of ([A-Za-z]+):,
\* and the whole answer when nothing matches
TagCapture(s) ==
    IF \E i \in 1..Len(s) : TagMatchAt(s, i)
    THEN LET i == CHOOSE j \in 1..Len(s) :
                    TagMatchAt(s, j) /\ \A k \in 1..(j - 1) : ~TagMatchAt(s, k)
         IN  SubSeq(s, i, LetterRunEnd(s, i) - 1)
    ELSE s

WordChars == Letters \cup Digits \cup {"_"}

KindWords ==
    {<<"M", "A", "J", "O", "R">>, <<"M", "I", "N", "O", "R">>,
     <<"P", "A", "T", "C", "H">>}

\* the regular expression \b(MAJOR|MINOR|PATCH)\b matches at position i
KindMatchAt(s, i) ==
    /\ \E w \in KindWords : StartsWithAt(s, w, i)
    /\ (i = 1 \/ s[i - 1] \notin WordChars)
    /\ (i + 5 > Len(s) \/ s[i + 5] \notin WordChars)

\* process_answers, lines 359-367: group 1 of the leftmost match, and the
\* whole answer when nothing matches
KindCapture(s) ==
    IF \E i \in 1..Len(s) : KindMatchAt(s, i)
    THEN LET i == CHOOSE j \in 1..Len(s) :
                    KindMatchAt(s, j) /\ \A k \in 1..(j - 1) : ~KindMatchAt(s, k)
         IN  SubSeq(s, i, i + 4)
    ELSE s

\* handle_cancel(err): the exit code for an error of a prompt
handle_cancel(err) ==
    IF err \in {"OperationCanceled", "OperationInterrupted"} THEN 130 ELSE 1

PromptErrors == {"OperationCanceled", "OperationInterrupted", "IO"}

\* what the create flow never writes
create_frame ==
    <<files, changelog, store_exists, changesets, current_version, change,
      new_version, content, entries, idx, success, calls, config_vars, result,
      toml_vars, cfg, templates, fs_vars>>

\* prompt().unwrap_or_else(|e| handle_cancel(e)) when the prompt returns an
\* error: the process exits
PromptFails ==
    \E err \in PromptErrors :
       /\ pc' = "exited"
       /\ exit_code' = handle_cancel(err)
       /\ cancel_at' = IF err = "IO" THEN cancel_at ELSE pc
       /\ UNCHANGED <<draft, store, panic_at>>

\* the prompt was answered: the flow goes on at position next
Answered(next) ==
    /\ pc' = next
    /\ UNCHANGED <<exit_code, cancel_at, store, panic_at>>

\* Text::with_default(default): the default stands for an empty input
TextAnswer(typed, default) == IF Len(typed) = 0 THEN default ELSE typed

DefaultName ==
    <<"L", "e", "a", "v", "e", " ", "i", "t", " ", "b", "l", "a", "n", "k">>

TypedName == <<"n">>

RandomWord == <<"w">>

TypedMessage == <<"f", "i", "x">>

AiMessage == <<"a", "i">>

ErrorGeneratingMessage ==
    <<"E", "r", "r", "o", "r", " ", "g", "e", "n", "e", "r", "a", "t", "i", "n",
      "g", " ", "m", "e", "s", "s", "a", "g", "e">>

TemplateText == <<"t", "p", "l">>

\* create_name_and_type, lines 166-169, and process_answers, lines 356-358
ask_name ==
    /\ pc = "ask_name"
    /\ \/ PromptFails
       \/ \E typed \in {<<>>, <<" ">>, TypedName} :
             LET name == TextAnswer(typed, DefaultName) IN
             /\ draft' = [draft EXCEPT !.name =
                             IF name = DefaultName \/ IsBlank(name)
                             THEN RandomWord ELSE name]
             /\ Answered("ask_change")
    /\ UNCHANGED create_frame

\* create_name_and_type, lines 170-179, and process_answers, lines 359-367
ask_change ==
    /\ pc = "ask_change"
    /\ \/ PromptFails
       \/ \E k \in 1..Len(ChangeOptions) :
             /\ draft' = [draft EXCEPT !.change = KindCapture(ChangeOptions[k])]
             /\ Answered("set_tag")
    /\ UNCHANGED create_frame

\* set_tag
set_tag ==
    /\ pc = "set_tag"
    /\ \/ PromptFails
       \/ \E k \in 1..Len(select_tags(draft.change)) :
             /\ draft' = [draft EXCEPT !.tag =
                             TagCapture(select_tags(draft.change)[k])]
             /\ Answered("ask_module")
    /\ UNCHANGED create_frame

\* ask_for_module: a list of files or modules is offered when git or the
\* scan finds some; the last option of a list leads to the free text
ask_module ==
    /\ pc = "ask_module"
    /\ \/ PromptFails
       \/ /\ draft' = [draft EXCEPT !.modules = <<"p">>]
          /\ Answered("ask_method")
       \/ /\ UNCHANGED draft
          /\ Answered("ask_custom_module")
    /\ UNCHANGED create_frame

\* ask_for_module: the free text, whose default is empty
ask_custom_module ==
    /\ pc = "ask_custom_module"
    /\ \/ PromptFails
       \/ \E typed \in {<<>>, <<"p">>} :
             /\ draft' = [draft EXCEPT !.modules = TextAnswer(typed, <<>>)]
             /\ Answered("ask_method")
    /\ UNCHANGED create_frame

\* ask_for_message_method: the methods offered under the configuration
MessageMethods ==
    {"scratch"}
    \cup (IF cfg.templates_dir.some /\ templates.has_entry
          THEN {"template"} ELSE {})
    \cup (IF cfg.ai_enabled THEN {"ai"} ELSE {})

\* ask_for_message_method, and the branch ask_for_message takes; with the
\* template method the templates are read, and none leads to manual entry
ask_method ==
    /\ pc = "ask_method"
    /\ \/ PromptFails
       \/ \E m \in MessageMethods :
             /\ draft' = [draft EXCEPT !.method = m]
             /\ Answered(CASE m = "ai" -> "generate_ai"
                           [] m = "template" ->
                                 IF Len(templates.files) = 0
                                 THEN "ask_fallback" ELSE "select_template"
                           [] m = "scratch" -> "ask_scratch")
    /\ UNCHANGED create_frame

\* ask_for_message, lines 260-266: the message of the AI collaborator, or
\* the stand-in text when it fails
generate_ai ==
    /\ pc = "generate_ai"
    /\ \E m \in {AiMessage, ErrorGeneratingMessage} :
          draft' = [draft EXCEPT !.ai_message = m]
    /\ Answered("ask_edit")
    /\ UNCHANGED create_frame

\* ask_for_message, lines 269-285: edit the generated message or take it
ask_edit ==
    /\ pc = "ask_edit"
    /\ \/ PromptFails
       \/ /\ UNCHANGED draft
          /\ Answered("edit_ai")
       \/ /\ draft' = [draft EXCEPT !.message = draft.ai_message]
          /\ Answered("build_changeset")
    /\ UNCHANGED create_frame

\* ask_for_message, lines 277-281: the generated message is the default
edit_ai ==
    /\ pc = "edit_ai"
    /\ \/ PromptFails
       \/ \E typed \in {<<>>, TypedMessage} :
             /\ draft' = [draft EXCEPT !.message =
                             TextAnswer(typed, draft.ai_message)]
             /\ Answered("build_changeset")
    /\ UNCHANGED create_frame

\* ask_for_message, lines 292-298: no template could be read, the message
\* is asked for with an empty default and returned
ask_fallback ==
    /\ pc = "ask_fallback"
    /\ \/ PromptFails
       \/ \E typed \in {<<>>, TypedMessage} :
             /\ draft' = [draft EXCEPT !.message = TextAnswer(typed, <<>>)]
             /\ Answered("build_changeset")
    /\ UNCHANGED create_frame

\* ask_for_message, lines 300-308
select_template ==
    /\ pc = "select_template"
    /\ \/ PromptFails
       \/ \E k \in 1..Len(templates.files) :
             /\ draft' = [draft EXCEPT !.template = templates.files[k]]
             /\ Answered("ask_template_text")
    /\ UNCHANGED create_frame

\* ask_for_message, lines 310-325: asked again as long as the message is
\* empty or is the template
ask_template_text ==
    /\ pc = "ask_template_text"
    /\ \/ PromptFails
       \/ \E typed \in {<<>>, TypedMessage, TemplateText} :
             LET message == TextAnswer(typed, draft.template) IN
             /\ draft' = [draft EXCEPT !.message = message]
             /\ Answered(IF Len(message) = 0 \/ message = draft.template
                         THEN "ask_template_text" ELSE "build_changeset")
    /\ UNCHANGED create_frame

\* ask_for_message, lines 328-338: an empty message is a panic
ask_scratch ==
    /\ pc = "ask_scratch"
    /\ \/ PromptFails
       \/ \E typed \in {<<>>, TypedMessage} :
             LET message == TextAnswer(typed, <<>>) IN
             IF Len(message) = 0
             THEN /\ Panic
                  /\ UNCHANGED <<draft, exit_code, cancel_at, store>>
             ELSE /\ draft' = [draft EXCEPT !.message = message]
                  /\ Answered("build_changeset")
    /\ UNCHANGED create_frame

\* the change kind as calculate_next_version takes it
KindName(kind) ==
    CASE kind = <<"M", "A", "J", "O", "R">> -> "MAJOR"
      [] kind = <<"M", "I", "N", "O", "R">> -> "MINOR"
      [] kind = <<"P", "A", "T", "C", "H">> -> "PATCH"

\* process_answers, lines 378-392: the current version is read, the next
\* one computed, and the Changeset built
build_changeset ==
    /\ pc = "build_changeset"
    /\ \E io \in {"ok", "version_file_unreadable"} :
          LET r == open_path(files[FirstPath(version_paths)]) IN
          IF io = "ok" /\ r.ok
          THEN /\ draft' = [draft EXCEPT !.version =
                               calculate_next_version(r.version,
                                                      KindName(draft.change))]
               /\ Answered("confirm_changeset")
          ELSE /\ Panic
               /\ UNCHANGED <<draft, exit_code, cancel_at, store>>
    /\ UNCHANGED create_frame

\* confirm_changeset, and process_answers, lines 394-403: declining exits
\* with the code of a cancellation
confirm_changeset ==
    /\ pc = "confirm_changeset"
    /\ \/ PromptFails
       \/ /\ UNCHANGED draft
          /\ Answered("write_changeset")
       \/ /\ pc' = "exited"
          /\ exit_code' = 130
          /\ cancel_at' = pc
          /\ UNCHANGED <<draft, store, panic_at>>
    /\ UNCHANGED create_frame

\* the record of the changeset built
DraftChangeset ==
    Changeset(draft.name, draft.change, draft.modules, draft.tag,
              draft.message, draft.version)

\* create_changesets, lines 409-414: the record is written to the store, and
\* the configuration decides whether the commit is asked for
write_changeset ==
    /\ pc = "write_changeset"
    /\ \E io \in {"ok", "write_failed"} :
          IF io = "ok"
          THEN /\ store' = Append(store, FileEntry(DraftChangeset))
               /\ pc' = IF cfg.commit_on_create THEN "ask_commit" ELSE "created"
               /\ UNCHANGED panic_at
          ELSE /\ Panic
               /\ UNCHANGED store
    /\ UNCHANGED <<draft, exit_code, cancel_at>>
    /\ UNCHANGED create_frame

\* create_changesets, lines 416-452: the commit is asked for and made; git
\* is outside the state
ask_commit ==
    /\ pc = "ask_commit"
    /\ \/ PromptFails
       \/ /\ UNCHANGED draft
          /\ Answered("created")
    /\ UNCHANGED create_frame

\* create_changesets, lines 454-459: the success box, and the process ends
create_success ==
    /\ pc = "created"
    /\ pc' = "exited"
    /\ exit_code' = 0
    /\ UNCHANGED <<draft, cancel_at, store, panic_at>>
    /\ UNCHANGED create_frame

\* the directories of templates: missing or empty, holding a subdirectory
\* only, holding one template, holding a template and an empty file
TemplateDirs ==
    {NoTemplates,
     [has_entry |-> TRUE, files |-> <<>>],
     [has_entry |-> TRUE, files |-> <<TemplateText>>],
     [has_entry |-> TRUE, files |-> <<TemplateText, <<>>>>]}

InitCreate ==
    /\ pc = "ask_name"
    /\ cfg \in [ai_enabled : BOOLEAN,
                templates_dir : {[some |-> FALSE, dir |-> <<>>],
                                 [some |-> TRUE, dir |-> <<"t">>]},
                commit_on_create : BOOLEAN]
    /\ templates \in TemplateDirs
    /\ (~cfg.templates_dir.some => templates = NoTemplates)
    /\ draft = NoDraft
    /\ exit_code = "none"
    /\ cancel_at = "none"
    /\ result = NoResult
    /\ InitToml
    /\ InitFs
    /\ version_paths = <<1>>
    /\ files = [i \in 1..1 |-> FilePlain]
    /\ files0 = files
    /\ changelog = PriorChangelog
    /\ changelog0 = changelog
    /\ store_exists = TRUE
    /\ store = <<>>
    /\ store0 = store
    /\ changesets = <<>>
    /\ current_version = <<>>
    /\ change = "none"
    /\ new_version = <<>>
    /\ content = <<>>
    /\ entries = <<>>
    /\ idx = 0
    /\ panic_at = "none"
    /\ success = FALSE
    /\ calls = 0

NextCreate ==
    \/ ask_name
    \/ ask_change
    \/ set_tag
    \/ ask_module
    \/ ask_custom_module
    \/ ask_method
    \/ generate_ai
    \/ ask_edit
    \/ edit_ai
    \/ ask_fallback
    \/ select_template
    \/ ask_template_text
    \/ ask_scratch
    \/ build_changeset
    \/ confirm_changeset
    \/ write_changeset
    \/ ask_commit
    \/ create_success

SpecCreate == InitCreate /\ [][NextCreate]_vars

(***************************************************************************)
(* Claims about the create flow (SpecCreate).                              *)
(***************************************************************************)
\* C16: whenever the user cancelled a prompt of the create flow or declined
\* the final confirmation, the process has exited with code 130, which is
\* not the code 1 of a failure, and no record was written to the store.
C16_CancelWritesNothing ==
    cancel_at # "none" =>
       /\ pc = "exited"
       /\ exit_code = 130
       /\ exit_code # handle_cancel("IO")
       /\ store = store0

\* the tags of a change kind
Vocabulary(kind) ==
    CASE kind = <<"M", "A", "J", "O", "R">> ->
            {<<"R", "e", "m", "o", "v", "e">>, <<"R", "e", "n", "a", "m", "e">>,
             <<"I", "/", "O">>, <<"B", "e", "h", "a", "v", "i", "o", "r">>}
      [] kind = <<"M", "I", "N", "O", "R">> ->
            {<<"F", "e", "a", "t", "u", "r", "e">>, <<"A", "d", "d">>,
             <<"I", "/", "O">>,
             <<"D", "e", "p", "r", "e", "c", "a", "t", "e", "d">>}
      [] kind = <<"P", "A", "T", "C", "H">> ->
            {<<"R", "e", "f", "a", "c", "t", "o", "r">>, <<"B", "u", "g">>,
             <<"O", "p", "t", "i", "m", "i", "z", "a", "t", "i", "o", "n">>,
             <<"T", "e", "s", "t", "s">>, <<"P", "a", "t", "c", "h">>}
      [] OTHER -> {}

\* C17: the Changeset the create flow builds has one of the three change
\* kinds and a tag of the vocabulary of that kind, whatever was selected.
C17_TagInVocabulary ==
    pc \in {"confirm_changeset", "write_changeset", "ask_commit", "created"} =>
       /\ DraftChangeset.change \in KindWords
       /\ DraftChangeset.tag \in Vocabulary(DraftChangeset.change)

\* C18: every record the create flow wrote to the store has a message that
\* is not empty, whichever way the message was authored.
C18_MessageNotEmpty ==
    \A i \in 1..Len(store) : Len(store[i].changeset.message) > 0

(***************************************************************************)
(* Cleanup against the configured store (SpecStoreDir): delete_changesets  *)
(* in a project whose changeforge.toml names the changeset directory.      *)
(***************************************************************************)
\* line 77: let folder_path = ".changesets"
folder_path == <<".", "c", "h", "a", "n", "g", "e", "s", "e", "t", "s">>

\* the directories changesets_dir may name
StoreDirs == {folder_path, RecordsDir}

\* changeforge.toml as init_project lays it out, with changesets_dir = dir
ConfigNaming(dir) ==
    ParsedFile(TomlTable(<<Pair("changeforge",
        TomlTable(<<Pair("version_path", TomlArray(<<TomlString(<<"c", "1">>)>>)),
                    Pair("changesets_dir", TomlString(dir))>>))>>))

InitStoreDir ==
    /\ pc = "delete_changesets"
    /\ \E dir \in StoreDirs : changeforge_toml = ConfigNaming(dir)
    /\ pyproject_toml = AbsentFile
    /\ store_exists = TRUE
    /\ store \in Listings(MaxStore)
    /\ store0 = store
    /\ other_dirs \in [{RecordsDir} -> Listings(MaxStore)]
    /\ project = NoProject
    /\ answers = NoAnswers
    /\ result = NoResult
    /\ InitCreateVars
    /\ version_paths = <<1>>
    /\ files = [i \in 1..1 |-> FilePlain]
    /\ files0 = files
    /\ changelog = PriorChangelog
    /\ changelog0 = changelog
    /\ changesets = <<>>
    /\ current_version = <<>>
    /\ change = "none"
    /\ new_version = <<>>
    /\ content = <<>>
    /\ entries = <<>>
    /\ idx = 0
    /\ panic_at = "none"
    /\ success = FALSE
    /\ calls = 0

NextStoreDir ==
    \/ delete_changesets_begin
    \/ delete_changesets_remove

SpecStoreDir == InitStoreDir /\ [][NextStoreDir]_vars

\* the directory the configuration names as the changeset store
ConfiguredDir ==
    Get(Get(changeforge_toml.doc, "changeforge"), "changesets_dir").text

\* the entries a directory holds now
EntriesOf(dir) == IF dir = folder_path THEN store ELSE other_dirs[dir]

\* C22: cleanup empties the store the configuration names: once
\* delete_changesets has returned, the directory named by changesets_dir
\* holds no regular file, and no file of any other directory was deleted.
C22_ConfiguredStoreEmptied ==
    pc = "deleted" =>
       /\ FilesOf(EntriesOf(ConfiguredDir)) = {}
       /\ (ConfiguredDir # folder_path => store = store0)

(***************************************************************************)
(* Claims about a release whose version propagation fails (Spec).          *)
(***************************************************************************)
\* update_version_path panicked: while resolving the current version or
\* while rewriting one of the configured files
PropagationFailed ==
    pc = "panicked" /\ panic_at \in {"update_version_path", "rewrite"}

\* the block of the release as CHANGELOG.md holds it
ReleaseBlock ==
    Join(new_changelog_entry(changesets, new_version), <<"\n">>)

\* C23: when update_version_path fails on a configured file, CHANGELOG.md
\* has already been overwritten and begins with the block of the new
\* release, no record of the store has been deleted, and the store still
\* holds the whole pending set, each changeset of which has its bullet in
\* the changelog; the command has not reported success.
C23_FailureAfterChangelog ==
    PropagationFailed =>
       /\ changelog # changelog0
       /\ StartsWithAt(changelog, ReleaseBlock, 1)
       /\ store = store0
       /\ changesets = get_current_changesets(store)
       /\ changesets # <<>>
       /\ \A i \in 1..Len(changesets) :
             Contains(changelog, BulletLine(changesets[i]))
       /\ ~success

\* C23 witness: the rewrite of the second configured file failed; the
\* changelog holds the release block and the store holds its two records.
C23_Witness ==
    /\ PropagationFailed
    /\ panic_at = "rewrite"
    /\ idx = 2
    /\ Len(changesets) = 2
    /\ StartsWithAt(changelog, ReleaseBlock, 1)
    /\ store = store0

(***************************************************************************)
(* Version propagation run again after it failed (SpecRetry):              *)
(* update_version_path, and a second call with the same target version     *)
(* once a rewrite has panicked.                                            *)
(***************************************************************************)
\* the files find_version reads a version from
ReadableFiles == {f \in FileContents : open_path(f).ok}

\* the files configured after the first one: one holding the version of
\* FilePlain, one holding another version, one holding none
LaterFiles == {FilePlain, FileOther, FileNoMarker}

\* what the failed call left behind: the file whose rewrite failed and the
\* texts of the files at that moment
FailedCall(k, texts) ==
    [ok |-> FALSE, error |-> "rewrite failed", at |-> k, files |-> texts]

\* update_version_path called once more with the same new_version, by a new
\* run of the program, after the rewrite of a file panicked
update_version_path_retry ==
    /\ pc = "panicked"
    /\ panic_at = "rewrite"
    /\ result = NoResult
    /\ result' = FailedCall(idx, files)
    /\ pc' = "update_version_path"
    /\ panic_at' = "none"
    /\ UNCHANGED <<files, changelog, store_exists, store, changesets,
                   current_version, change, new_version, content, entries,
                   idx, success, calls, config_vars, toml_vars,
                   create_vars, fs_vars>>

InitRetry ==
    /\ pc = "update_version_path"
    /\ \E n \in 2..(MaxPaths + 1) :
          /\ version_paths = [i \in 1..n |-> i]
          /\ \E first \in ReadableFiles, rest \in [2..n -> LaterFiles] :
                files = [i \in 1..n |-> IF i = 1 THEN first ELSE rest[i]]
    /\ files0 = files
    /\ \E kind \in ChangeKinds :
          /\ change = kind
          /\ new_version =
                calculate_next_version(open_path(files[1]).version, kind)
    /\ current_version = open_path(files[1]).version
    /\ changelog = PriorChangelog
    /\ changelog0 = changelog
    /\ store_exists = TRUE
    /\ store = <<>>
    /\ store0 = store
    /\ changesets = <<>>
    /\ content = <<>>
    /\ entries = <<>>
    /\ idx = 0
    /\ panic_at = "none"
    /\ success = FALSE
    /\ calls = 0
    /\ InitAux

NextRetry ==
    \/ update_version_path_begin
    \/ update_version_path_rewrite
    \/ update_version_path_retry

SpecRetry == InitRetry /\ [][NextRetry]_vars

\* the second call is under way, or has returned, without a failure of
\* its own
Retried ==
    /\ result # NoResult
    /\ pc \in {"rewrite", "delete_changesets"}

\* the version the first configured file held when the command started
OldVersion == RecognizedVersion(files0[version_paths[1]])

\* C24: update_version_path reads the old version once per call, from the
\* first configured file and before it writes any file, and uses it for
\* every file.  So when a call rewrote file 1 and failed on file K > 1, a
\* second call with the same target version reads the new version from
\* file 1 and changes nothing: files K..M are as the failed call left them,
\* and those the failed call did not write still are what they were at the
\* start, the old version included.
C24_RetryDoesNotRepair ==
    /\ (pc = "rewrite" /\ result = NoResult) =>
          /\ current_version = OldVersion
          /\ \A i \in 1..(idx - 1) :
                files[version_paths[i]] =
                   StrReplace(files0[version_paths[i]], OldVersion, new_version)
    /\ (Retried /\ result.at > 1) =>
          /\ current_version = RecognizedVersion(result.files[version_paths[1]])
          /\ current_version = new_version
          /\ \A i \in result.at..Len(version_paths) :
                LET p == version_paths[i] IN
                /\ files[p] = result.files[p]
                /\ result.files[p] = files0[p] =>
                      /\ files[p] = files0[p]
                      /\ RecognizedVersion(files[p]) = RecognizedVersion(files0[p])
          /\ \A i \in (result.at + 1)..Len(version_paths) :
                files[version_paths[i]] = files0[version_paths[i]]

\* C24 witness: the second call returned after the first one had rewritten
\* file 1 and failed on file 2; file 1 reads the new version and file 2
\* still reads the old one.
C24_Witness ==
    /\ result # NoResult
    /\ pc = "delete_changesets"
    /\ result.at = 2
    /\ RecognizedVersion(files[version_paths[1]]) = new_version
    /\ RecognizedVersion(files0[version_paths[2]]) = OldVersion
    /\ RecognizedVersion(files[version_paths[2]]) = OldVersion
    /\ OldVersion # new_version

(***************************************************************************)
(* Project initialization (SpecInit): init_project over a project root     *)
(* that may already hold changeforge.toml and the workflow files.          *)
(***************************************************************************)
Whitespace == {" ", "\t", "\n", "\r"}

\* str::trim
RECURSIVE Trim(_)
Trim(text) ==
    IF Len(text) = 0 THEN text
    ELSE IF text[1] \in Whitespace THEN Trim(Tail(text))
    ELSE IF text[Len(text)] \in Whitespace
         THEN Trim(SubSeq(text, 1, Len(text) - 1))
         ELSE text

\* format!("{}", b) of a bool
FormatBool(b) ==
    IF b THEN <<"t", "r", "u", "e">> ELSE <<"f", "a", "l", "s", "e">>

\* lines 303-304: the paths init_project always writes
DefaultChangesetsDir == folder_path

DefaultChangelogPath ==
    <<"C", "H", "A", "N", "G", "E", "L", "O", "G", ".", "m", "d">>

\* generate_config_toml
generate_config_toml(paths, changesets_dir, changelog_path, ai_enabled, templates_dir, commit_on_create) ==
    LET joined == Join([i \in 1..Len(paths) |-> Quoted(paths[i])], <<",", " ">>)
    IN  <<"[", "c", "h", "a", "n", "g", "e", "f", "o", "r", "g", "e", "]",
          "\n", "v", "e", "r", "s", "i", "o", "n", "_", "p", "a", "t", "h",
          " ", "=", " ", "[">>
        \o joined
        \o <<"]", "\n", "c", "h", "a", "n", "g", "e", "s", "e", "t", "s",
             "_", "d", "i", "r", " ", "=", " ", "\"">>
        \o changesets_dir
        \o <<"\"", "\n", "c", "h", "a", "n", "g", "e", "l", "o", "g", "_",
             "p", "a", "t", "h", " ", "=", " ", "\"">>
        \o changelog_path
        \o <<"\"", "\n", "a", "i", "_", "e", "n", "a", "b", "l", "e", "d",
             " ", "=", " ">>
        \o FormatBool(ai_enabled)
        \o <<"\n", "t", "e", "m", "p", "l", "a", "t", "e", "s", "_", "d",
             "i", "r", " ", "=", " ", "\"">>
        \o templates_dir
        \o <<"\"", "\n", "c", "o", "m", "m", "i", "t", "_", "o", "n", "_",
             "c", "r", "e", "a", "t", "e", " ", "=", " ">>
        \o FormatBool(commit_on_create) \o <<"\n">>

\* generate_workflow_open_pr: the two branches set into the text of the
\* workflow, each fixed stretch of which is written as one character here
generate_workflow_open_pr(branch_watch, base_branch) ==
    <<"<name: Open PR on push ... branches: - >">> \o branch_watch
    \o <<"<jobs: open_pr ... BRANCH_NAME: >">> \o base_branch
    \o <<"<HEAD_BRANCH ... run: python .github/utilities/open_pr.py>">>

\* generate_workflow_auto_release, written the same way
generate_workflow_auto_release(target_branch) ==
    <<"<name: Auto Release on target branch ... branches: - >">>
    \o target_branch
    \o <<"<jobs: release ... GITHUB_TOKEN>">>

\* a regular file holding a text, and a directory
FileWith(text) == [kind |-> "file", content |-> text]

Directory == [kind |-> "dir", content |-> <<>>]

\* a mutation of PathExists: the path is never found
PathExistsNever(entry) == FALSE

\* line 27: Path::new(path).exists()
PathExists(entry) == entry.kind # "absent"

\* Path::parent of the paths written: none for changeforge.toml
HasParent(path) == path \in {OpenPrPath, AutoReleasePath}

\* fs::create_dir_all(dir) with its result dropped: the directory is made
\* when nothing is there and the system allows it, and whatever is there
\* stays
create_dir_all(tree, dir) ==
    IF dir \in DOMAIN tree /\ tree[dir].kind = "absent"
    THEN {tree, [tree EXCEPT ![dir] = Directory]}
    ELSE {tree}

\* fs::write(path, content): what the project holds afterwards and whether
\* the call returned Ok; a failed write leaves nothing or part of the text
fs_write(tree, path, text) ==
    IF HasParent(path) /\ tree[WorkflowsDir].kind # "dir"
    THEN {[ok |-> FALSE, tree |-> tree]}
    ELSE {[ok |-> TRUE, tree |-> [tree EXCEPT ![path] = FileWith(text)]],
          [ok |-> FALSE, tree |-> tree]}
         \cup {[ok |-> FALSE, tree |-> [tree EXCEPT ![path] = FileWith(t)]] :
                  t \in StrictPrefixes(text)}

\* what init_project never touches
init_frame ==
    <<files, changelog, store_exists, store, changesets, current_version,
      change, new_version, content, entries, idx, success, calls, config_vars,
      result, toml_vars, draft, cfg, templates, other_dirs>>

\* unwrap_or_else(|e| handle_cancel(e)) of init.rs when a prompt returns an
\* error: the process exits, 130 for a cancel and 1 otherwise
InitPromptFails ==
    \E err \in PromptErrors :
       /\ pc' = "exited"
       /\ exit_code' = handle_cancel(err)
       /\ cancel_at' = IF err = "IO" THEN cancel_at ELSE pc
       /\ UNCHANGED <<project, answers, panic_at>>

\* write_file_if_absent(path, content), after which init_project goes on at
\* position next: nothing is done when the path exists; otherwise the
\* parent directory is made and the file written, and a write that fails
\* panics
write_file_if_absent(path, text, next) ==
    IF PathExists(project[path])
    THEN /\ pc' = next
         /\ UNCHANGED <<project, panic_at>>
    ELSE \E made \in (IF HasParent(path)
                      THEN create_dir_all(project, WorkflowsDir)
                      ELSE {project}) :
            \E w \in fs_write(made, path, text) :
               /\ project' = w.tree
               /\ IF w.ok
                  THEN pc' = next /\ UNCHANGED panic_at
                  ELSE Panic

CargoToml == <<"C", "a", "r", "g", "o", ".", "t", "o", "m", "l">>

PyprojectToml ==
    <<"p", "y", "p", "r", "o", "j", "e", "c", "t", ".", "t", "o", "m", "l">>

\* what select_version_paths may return: a list, never empty and without
\* repetition, of the files offered and the paths typed
VersionPathAnswers ==
    {l \in SeqsUpTo({CargoToml, PyprojectToml}, MaxPaths) :
        /\ Len(l) > 0
        /\ \A i, j \in 1..Len(l) : i # j => l[i] # l[j]}

\* line 298: select_version_paths, every prompt of which may be cancelled
select_version_paths ==
    /\ pc = "select_version_paths"
    /\ \/ InitPromptFails
       \/ \E l \in VersionPathAnswers :
             /\ answers' = [answers EXCEPT !.version_paths = l]
             /\ pc' = "ask_creation_options"
             /\ UNCHANGED <<project, exit_code, cancel_at, panic_at>>
    /\ UNCHANGED init_frame

\* ask_creation_options: the two toggles are the options selected
ask_creation_options ==
    /\ pc = "ask_creation_options"
    /\ \/ InitPromptFails
       \/ \E ai \in BOOLEAN, commit \in BOOLEAN :
             /\ answers' = [answers EXCEPT !.ai_enabled = ai,
                                           !.commit_on_create = commit]
             /\ pc' = "ask_templates_dir"
             /\ UNCHANGED <<project, exit_code, cancel_at, panic_at>>
    /\ UNCHANGED init_frame

\* lines 312-318: the templates directory, made when the answer is not
\* blank
ask_templates_dir ==
    /\ pc = "ask_templates_dir"
    /\ \/ InitPromptFails
       \/ \E typed \in {<<>>, <<" ">>, TemplatesPath, ConfigPath} :
             LET dir == TextAnswer(typed, <<>>) IN
             /\ answers' = [answers EXCEPT !.templates_dir = dir]
             /\ IF IsBlank(Trim(dir))
                THEN UNCHANGED project
                ELSE project' \in create_dir_all(project, dir)
             /\ pc' = "write_config"
             /\ UNCHANGED <<exit_code, cancel_at, panic_at>>
    /\ UNCHANGED init_frame

\* lines 319-327: changeforge.toml
write_config ==
    /\ pc = "write_config"
    /\ write_file_if_absent(ConfigPath,
          generate_config_toml(answers.version_paths, DefaultChangesetsDir,
                               DefaultChangelogPath, answers.ai_enabled,
                               Trim(answers.templates_dir),
                               answers.commit_on_create),
          "ask_pr_workflow")
    /\ UNCHANGED <<answers, exit_code, cancel_at>>
    /\ UNCHANGED init_frame

\* lines 332-336: whether to add the workflow that opens a pull request
ask_pr_workflow ==
    /\ pc = "ask_pr_workflow"
    /\ \/ InitPromptFails
       \/ \E add_pr_wf \in BOOLEAN :
             /\ pc' = IF add_pr_wf THEN "ask_watch_branch"
                      ELSE "ask_release_workflow"
             /\ UNCHANGED <<project, answers, exit_code, cancel_at, panic_at>>
    /\ UNCHANGED init_frame

BumpNewVersion ==
    <<"b", "u", "m", "p", "-", "n", "e", "w", "-", "v", "e", "r", "s", "i",
      "o", "n">>

Main == <<"m", "a", "i", "n">>

TypedBranch == <<"d", "e", "v">>

\* lines 338-342: the branch to watch
ask_watch_branch ==
    /\ pc = "ask_watch_branch"
    /\ \/ InitPromptFails
       \/ \E typed \in {<<>>, TypedBranch} :
             /\ answers' = [answers EXCEPT !.watch_branch =
                               TextAnswer(typed, BumpNewVersion)]
             /\ pc' = "ask_base_branch"
             /\ UNCHANGED <<project, exit_code, cancel_at, panic_at>>
    /\ UNCHANGED init_frame

\* lines 343-347: the base branch of the pull request
ask_base_branch ==
    /\ pc = "ask_base_branch"
    /\ \/ InitPromptFails
       \/ \E typed \in {<<>>, TypedBranch} :
             /\ answers' = [answers EXCEPT !.base_branch =
                               TextAnswer(typed, Main)]
             /\ pc' = "write_open_pr"
             /\ UNCHANGED <<project, exit_code, cancel_at, panic_at>>
    /\ UNCHANGED init_frame

\* lines 348-349: the workflow that opens a pull request
write_open_pr ==
    /\ pc = "write_open_pr"
    /\ write_file_if_absent(OpenPrPath,
          generate_workflow_open_pr(answers.watch_branch, answers.base_branch),
          "ask_release_workflow")
    /\ UNCHANGED <<answers, exit_code, cancel_at>>
    /\ UNCHANGED init_frame

\* lines 357-360: whether to add the workflow that makes a release
ask_release_workflow ==
    /\ pc = "ask_release_workflow"
    /\ \/ InitPromptFails
       \/ \E add_release_wf \in BOOLEAN :
             /\ pc' = IF add_release_wf THEN "ask_target_branch"
                      ELSE "initialized"
             /\ UNCHANGED <<project, answers, exit_code, cancel_at, panic_at>>
    /\ UNCHANGED init_frame

\* lines 362-367: the target branch of releases
ask_target_branch ==
    /\ pc = "ask_target_branch"
    /\ \/ InitPromptFails
       \/ \E typed \in {<<>>, TypedBranch} :
             /\ answers' = [answers EXCEPT !.target_branch =
                               TextAnswer(typed, Main)]
             /\ pc' = "write_auto_release"
             /\ UNCHANGED <<project, exit_code, cancel_at, panic_at>>
    /\ UNCHANGED init_frame

\* lines 368-369: the workflow that makes a release
write_auto_release ==
    /\ pc = "write_auto_release"
    /\ write_file_if_absent(AutoReleasePath,
          generate_workflow_auto_release(answers.target_branch),
          "initialized")
    /\ UNCHANGED <<answers, exit_code, cancel_at>>
    /\ UNCHANGED init_frame

\* a text the user wrote, which no generator of init_project gives
UserText == <<"#", " ", "m", "i", "n", "e", "\n">>

\* the project roots init_project may be run in: each path absent, a file
\* of the user's, or a directory, and the workflow files only inside an
\* existing workflows directory
ProjectRoots ==
    {t \in [ProjectPaths -> {AbsentPath, FileWith(UserText), Directory}] :
        /\ t[OpenPrPath].kind # "dir"
        /\ t[AutoReleasePath].kind # "dir"
        /\ t[WorkflowsDir].kind # "dir" =>
              (t[OpenPrPath] = AbsentPath /\ t[AutoReleasePath] = AbsentPath)}

InitProjectRoot ==
    /\ pc = "select_version_paths"
    /\ project \in ProjectRoots
    /\ answers = NoAnswers
    /\ other_dirs = NoOtherDirs
    /\ result = NoResult
    /\ InitToml
    /\ InitCreateVars
    /\ version_paths = <<1>>
    /\ files = [i \in 1..1 |-> FilePlain]
    /\ files0 = files
    /\ changelog = PriorChangelog
    /\ changelog0 = changelog
    /\ store_exists = TRUE
    /\ store = <<>>
    /\ store0 = store
    /\ changesets = <<>>
    /\ current_version = <<>>
    /\ change = "none"
    /\ new_version = <<>>
    /\ content = <<>>
    /\ entries = <<>>
    /\ idx = 0
    /\ panic_at = "none"
    /\ success = FALSE
    /\ calls = 0

NextInit ==
    \/ select_version_paths
    \/ ask_creation_options
    \/ ask_templates_dir
    \/ write_config
    \/ ask_pr_workflow
    \/ ask_watch_branch
    \/ ask_base_branch
    \/ write_open_pr
    \/ ask_release_workflow
    \/ ask_target_branch
    \/ write_auto_release

SpecInit == InitProjectRoot /\ [][NextInit]_vars

\* C25: init_project never overwrites: at every step, whatever a path of
\* the project names (changeforge.toml and the two workflow files among
\* them) is left as it is when the path exists, whatever was answered, and
\* a file is written only at a path that named nothing.
C25_InitNeverOverwrites ==
    [][\A p \in ProjectPaths :
          /\ project[p].kind # "absent" => project'[p] = project[p]
          /\ project'[p].content # project[p].content =>
                (project[p] = AbsentPath /\ project'[p].kind = "file")]_vars

\* C25 witness: init_project ran to its end in a project that held a
\* changeforge.toml and a release workflow of the user's and no pull-request
\* workflow: the first two are as the user wrote them, the third was
\* written from the answers.
C25_Witness ==
    /\ pc = "initialized"
    /\ project[ConfigPath] = FileWith(UserText)
    /\ project[AutoReleasePath] = FileWith(UserText)
    /\ answers.target_branch = TypedBranch
    /\ project[OpenPrPath] =
          FileWith(generate_workflow_open_pr(answers.watch_branch,
                                             answers.base_branch))

====
